---- MODULE Spec2Model ----
(***************************************************************************)
(* Yes Chef: the browser cooking assistant (assistant-browser.ts), its     *)
(* HTTP server (server.ts) and the timer manager (timers.ts), modelled as  *)
(* one state machine.  Texts are TLA+ strings handled character by         *)
(* character, so that sanitation, normalisation and the regular            *)
(* expressions of the source are computed, not assumed.                    *)
(***************************************************************************)
EXTENDS Integers, Sequences, FiniteSets, TLC

(***************************************************************************)
(* Text primitives (JavaScript String / RegExp behaviour on ASCII text).   *)
(***************************************************************************)
Ch(s, i) == SubSeq(s, i, i)

From(s, i) == SubSeq(s, i, Len(s))

CharsOf(s) == { Ch(s, i) : i \in 1..Len(s) }

UpperLetters == "ABCDEFGHIJKLMNOPQRSTUVWXYZ"

LowerLetters == "abcdefghijklmnopqrstuvwxyz"

DigitChars == CharsOf("0123456789")

\* [a-z0-9]
AlnumLower == CharsOf(LowerLetters) \cup DigitChars

\* \w of a regular expression
WordChars == CharsOf(LowerLetters) \cup CharsOf(UpperLetters) \cup DigitChars \cup {"_"}

\* \s of a regular expression (the ASCII part)
SpaceChars == {" ", "\t", "\n", "\r", "\f"}

\* the line terminators that "." of a regular expression does not match
LineTerminators == {"\n", "\r"}

lowerChar(c) ==
    IF c \in CharsOf(UpperLetters)
    THEN Ch(LowerLetters, CHOOSE i \in 1..26 : Ch(UpperLetters, i) = c)
    ELSE c

RECURSIVE toLowerCase(_)
toLowerCase(s) ==
    IF s = "" THEN "" ELSE lowerChar(Ch(s, 1)) \o toLowerCase(From(s, 2))

RECURSIVE trimStart(_)
trimStart(s) ==
    IF s # "" /\ Ch(s, 1) \in SpaceChars THEN trimStart(From(s, 2)) ELSE s

RECURSIVE trimEnd(_)
trimEnd(s) ==
    IF s # "" /\ Ch(s, Len(s)) \in SpaceChars
    THEN trimEnd(SubSeq(s, 1, Len(s) - 1))
    ELSE s

trim(s) == trimEnd(trimStart(s))

\* s.replace(/\s+/g, " ")
RECURSIVE collapseWhitespace(_)
collapseWhitespace(s) ==
    IF s = "" THEN ""
    ELSE IF Ch(s, 1) \in SpaceChars
         THEN " " \o collapseWhitespace(trimStart(s))
         ELSE Ch(s, 1) \o collapseWhitespace(From(s, 2))

\* the longest prefix of s made of characters of set
RECURSIVE prefixIn(_, _)
prefixIn(s, set) ==
    IF s # "" /\ Ch(s, 1) \in set
    THEN Ch(s, 1) \o prefixIn(From(s, 2), set)
    ELSE ""

\* the longest prefix of s made of characters outside set
RECURSIVE prefixNotIn(_, _)
prefixNotIn(s, set) ==
    IF s # "" /\ Ch(s, 1) \notin set
    THEN Ch(s, 1) \o prefixNotIn(From(s, 2), set)
    ELSE ""

\* s.split(/[^set]+/).filter(Boolean): the maximal runs of characters of set
RECURSIVE runsIn(_, _)
runsIn(s, set) ==
    IF s = "" THEN << >>
    ELSE IF Ch(s, 1) \in set
         THEN LET w == prefixIn(s, set)
              IN  <<w>> \o runsIn(From(s, Len(w) + 1), set)
         ELSE runsIn(From(s, 2), set)

\* s.split(/\s+/).filter(Boolean)
RECURSIVE splitWords(_)
splitWords(s) ==
    IF s = "" THEN << >>
    ELSE IF Ch(s, 1) \notin SpaceChars
         THEN LET w == prefixNotIn(s, SpaceChars)
              IN  <<w>> \o splitWords(From(s, Len(w) + 1))
         ELSE splitWords(From(s, 2))

\* words.join(" ")
RECURSIVE joinWords(_)
joinWords(ws) ==
    IF ws = << >> THEN ""
    ELSE IF Len(ws) = 1 THEN ws[1]
         ELSE ws[1] \o " " \o joinWords(Tail(ws))

\* s.split("\n")
RECURSIVE splitLines(_)
splitLines(s) ==
    LET l == prefixNotIn(s, {"\n"})
    IN  IF Len(l) = Len(s) THEN <<s>>
        ELSE <<l>> \o splitLines(From(s, Len(l) + 2))

startsWith(s, p) == Len(s) >= Len(p) /\ SubSeq(s, 1, Len(p)) = p

endsWith(s, p) == Len(s) >= Len(p) /\ SubSeq(s, Len(s) - Len(p) + 1, Len(s)) = p

\* s.includes(p)
includes(s, p) == \E i \in 1..(Len(s) + 1) : startsWith(From(s, i), p)

\* w occurs in s at position i between two word boundaries (\bw\b, w begins
\* and ends with a word character)
wordAt(s, w, i) ==
    /\ i >= 1
    /\ i + Len(w) - 1 <= Len(s)
    /\ SubSeq(s, i, i + Len(w) - 1) = w
    /\ (i = 1 \/ Ch(s, i - 1) \notin WordChars)
    /\ (i + Len(w) > Len(s) \/ Ch(s, i + Len(w)) \notin WordChars)

\* /\bw\b/.test(s)
hasWord(s, w) == \E i \in 1..Len(s) : wordAt(s, w, i)

\* the number of matches of /\bw\b/g in s
countWord(s, w) == Cardinality({ i \in 1..Len(s) : wordAt(s, w, i) })

\* the number of occurrences of the character c in s
countChar(s, c) == Cardinality({ i \in 1..Len(s) : Ch(s, i) = c })

(***************************************************************************)
(* Step texts: assistant-browser.ts, the pure helpers of the step lock.    *)
(***************************************************************************)
\* the value null of `string | null` fields
NULL == "<null>"

STOPWORDS ==
    {"a", "an", "and", "are", "as", "at", "be", "by", "for", "from", "has",
     "have", "in", "into", "is", "it", "of", "on", "or", "that", "the", "then",
     "to", "up", "with", "your", "you"}

\* tokenOverlap(...) >= 0.65, in percent
SAME_STEP_OVERLAP_PCT == 65

\* tokenOverlap(...) >= 0.25, in percent
RELATED_OVERLAP_PCT == 25

\* the cap of sanitizePanelStep and isStepTooBroad
MAX_STEP_WORDS == 12

normalizeStepKey(input) ==
    LET lower == toLowerCase(input)
        RECURSIVE blank(_)
        blank(s) ==
            IF s = "" THEN ""
            ELSE (IF Ch(s, 1) \in AlnumLower \cup SpaceChars THEN Ch(s, 1) ELSE " ")
                 \o blank(From(s, 2))
    IN  trim(collapseWhitespace(blank(lower)))

normalizeToken(token) ==
    LET normalized == trim(token)
        n == Len(normalized)
    IN  IF n <= 2 THEN ""
        ELSE IF endsWith(normalized, "ing") /\ n > 5 THEN SubSeq(normalized, 1, n - 3)
        ELSE IF endsWith(normalized, "ed") /\ n > 4 THEN SubSeq(normalized, 1, n - 2)
        ELSE IF endsWith(normalized, "es") /\ n > 4 THEN SubSeq(normalized, 1, n - 2)
        ELSE IF endsWith(normalized, "s") /\ n > 3 THEN SubSeq(normalized, 1, n - 1)
        ELSE normalized

tokenize(text) ==
    LET raw == runsIn(toLowerCase(text), AlnumLower)
    IN  SelectSeq([i \in 1..Len(raw) |-> normalizeToken(raw[i])],
                  LAMBDA tok : tok # "" /\ tok \notin STOPWORDS)

Range(seq) == { seq[i] : i \in 1..Len(seq) }

Min(a, b) == IF a <= b THEN a ELSE b

\* the ratio matches / min(sizes) as the pair <<numerator, denominator>>;
\* 0 is <<0, 1>>
tokenOverlap(left, right) ==
    LET leftTokens == Range(tokenize(left))
        rightTokens == Range(tokenize(right))
    IN  IF leftTokens = {} \/ rightTokens = {} THEN <<0, 1>>
        ELSE <<Cardinality(leftTokens \cap rightTokens),
               Min(Cardinality(leftTokens), Cardinality(rightTokens))>>

\* ratio >= pct / 100
atLeastPct(ratio, pct) == ratio[1] * 100 >= pct * ratio[2]

isSameStep(left, right) ==
    LET leftKey == normalizeStepKey(left)
        rightKey == normalizeStepKey(right)
    IN  IF leftKey = "" \/ rightKey = "" THEN FALSE
        ELSE IF leftKey = rightKey THEN TRUE
        ELSE atLeastPct(tokenOverlap(leftKey, rightKey), SAME_STEP_OVERLAP_PCT)

\* .replace(/^next\s*step\s*[:\-]\s*/i, "")
stripNextStepLabel(s) ==
    IF ~startsWith(toLowerCase(s), "next") THEN s
    ELSE LET a == trimStart(From(s, 5))
         IN  IF ~startsWith(toLowerCase(a), "step") THEN s
             ELSE LET b == trimStart(From(a, 5))
                  IN  IF b # "" /\ Ch(b, 1) \in {":", "-"}
                      THEN trimStart(From(b, 2))
                      ELSE s

\* .replace(/^step\s*\d+\s*[:.)-]?\s*/i, "")
stripStepNumberLabel(s) ==
    IF ~startsWith(toLowerCase(s), "step") THEN s
    ELSE LET a == trimStart(From(s, 5))
             d == prefixIn(a, DigitChars)
         IN  IF d = "" THEN s
             ELSE LET b == trimStart(From(a, Len(d) + 1))
                  IN  IF b # "" /\ Ch(b, 1) \in {":", ".", ")", "-"}
                      THEN trimStart(From(b, 2))
                      ELSE b

\* .replace(/^[-*]\s+/, "")  (the bullet character U+2022 is outside the
\* ASCII texts of this model)
stripBullet(s) ==
    IF Len(s) >= 2 /\ Ch(s, 1) \in {"-", "*"} /\ Ch(s, 2) \in SpaceChars
    THEN trimStart(From(s, 2))
    ELSE s

SentenceEnd == {".", "!", "?"}

\* s.replace(/[.!?]+$/g, "")
RECURSIVE stripSentenceEnd(_)
stripSentenceEnd(s) ==
    IF s # "" /\ Ch(s, Len(s)) \in SentenceEnd
    THEN stripSentenceEnd(SubSeq(s, 1, Len(s) - 1))
    ELSE s

\* the end of sanitizePanelStep without the cut
capWordsNever(step) == step

\* the end of sanitizePanelStep: a step of more than 12 words, its closing
\* marks not counted, is cut to the first 12 and closed with "."
capWords(step) ==
    IF Len(splitWords(stripSentenceEnd(step))) > MAX_STEP_WORDS
    THEN joinWords(SubSeq(splitWords(stripSentenceEnd(step)), 1, MAX_STEP_WORDS)) \o "."
    ELSE step

sanitizePanelStep(input) ==
    LET RECURSIVE unCR(_)
        unCR(s) ==
            IF s = "" THEN ""
            ELSE (IF Ch(s, 1) = "\r" THEN "\n" ELSE Ch(s, 1)) \o unCR(From(s, 2))
        lines == splitLines(unCR(input))
        trimmed == SelectSeq([i \in 1..Len(lines) |-> trim(lines[i])],
                             LAMBDA l : Len(l) > 0)
    IN  IF trimmed = << >> THEN ""
        ELSE
        LET firstLine == trimmed[1]
            step0 == trim(stripBullet(stripStepNumberLabel(stripNextStepLabel(firstLine))))
        IN  IF step0 = "" THEN ""
            ELSE
            LET head == prefixNotIn(step0, SentenceEnd)
                step1 == IF Len(head) < Len(step0)
                         THEN trim(SubSeq(step0, 1, Len(head) + 1))
                         ELSE step0
                step2 == IF Ch(step1, Len(step1)) \in SentenceEnd
                         THEN step1
                         ELSE step1 \o "."
            IN  capWords(step2)

isStepTooBroad(step) ==
    LET text == toLowerCase(step)
    IN  \/ trim(text) = ""
        \/ \E w \in {"analyse", "analysing", "analysed", "analysis",
                     "analyze", "analyzing", "analyzed", "analyzis"} : hasWord(text, w)
        \/ hasWord(text, "ingredient") \/ hasWord(text, "ingredients")
        \/ hasWord(text, "then") \/ hasWord(text, "after that") \/ hasWord(text, "next")
        \/ countChar(text, ",") >= 2
        \/ countWord(text, "and") >= 2
        \/ (LET d == prefixIn(text, DigitChars)
            IN  d # "" /\ Len(text) > Len(d) /\ Ch(text, Len(d) + 1) \in {")", "."})
        \/ Len(splitWords(text)) > MAX_STEP_WORDS

URGENT_WORDS ==
    {"stop", "danger", "urgent", "fire", "smoke", "burn", "hot oil", "knife",
     "raw chicken", "gas"}

\* /\b(stop|danger|...|gas)\b/i.test(message)
isUrgentMessage(message) ==
    \E w \in URGENT_WORDS : hasWord(toLowerCase(message), w)

\* /\?\s*$/.test(message)
isQuestion(message) == endsWith(trimEnd(message), "?")

(***************************************************************************)
(* Configuration (server.ts main) and constants of assistant-browser.ts.   *)
(***************************************************************************)
MAX_VISION_HISTORY == 10

ROUTINE_SPEAK_MIN_GAP_MS == 45000

\* for (let step = 0; step < 8; step += 1)
MAX_TOOL_ROUNDS == 8

speechRepeatCooldownMs == 120000

questionRepeatCooldownMs == 180000

minQuestionGapMs == 600000

StepStatuses == {"not_started", "in_progress", "complete", "unclear"}

(***************************************************************************)
(* The vision output (assistant-browser.ts, analyzeFrame): JSON.parse on   *)
(* texts without escape sequences and exponents, and the helpers that read *)
(* the assessment out of the text.  A JSON value is a record with its type.*)
(***************************************************************************)
\* the white space of the JSON grammar
JsonSpace == {" ", "\t", "\n", "\r"}

RECURSIVE skipSpace(_, _)
skipSpace(s, i) ==
    IF i <= Len(s) /\ Ch(s, i) \in JsonSpace THEN skipSpace(s, i + 1) ELSE i

\* the character of s at i is c
charAt(s, i, c) == i <= Len(s) /\ Ch(s, i) = c

SyntaxError == [ok |-> FALSE]

parsedAs(val, next) == [ok |-> TRUE, val |-> val, next |-> next]

\* a string whose opening quote is at i and whose characters are `body`
stringOf(s, i, body) ==
    IF charAt(s, i + 1 + Len(body), "\"")
    THEN parsedAs([type |-> "string", str |-> body], i + 2 + Len(body))
    ELSE SyntaxError

\* a string that begins with the quote at i
parseString(s, i) ==
    stringOf(s, i, prefixNotIn(From(s, i + 1), {"\"", "\\", "\n", "\r", "\t"}))

\* a number that begins at i, whose integer part begins at `from` and is
\* `int`, and whose fraction, after the point at `dot`, is `frac`
numberOf(s, i, int, dot, frac) ==
    IF int = "" \/ (Len(int) > 1 /\ Ch(int, 1) = "0") THEN SyntaxError
    ELSE IF ~charAt(s, dot, ".") THEN parsedAs([type |-> "number", str |-> SubSeq(s, i, dot - 1)], dot)
    ELSE IF frac = "" THEN SyntaxError
    ELSE parsedAs([type |-> "number", str |-> SubSeq(s, i, dot + Len(frac))],
                  dot + 1 + Len(frac))

numberFrom(s, i, from, int) ==
    numberOf(s, i, int, from + Len(int), prefixIn(From(s, from + Len(int) + 1), DigitChars))

\* a number that begins at i: -? int (. digits)?
parseNumber(s, i) ==
    IF charAt(s, i, "-")
    THEN numberFrom(s, i, i + 1, prefixIn(From(s, i + 1), DigitChars))
    ELSE numberFrom(s, i, i, prefixIn(From(s, i), DigitChars))

RECURSIVE parseValue(_, _)

RECURSIVE parseElements(_, _, _)

RECURSIVE parseMembers(_, _, _, _)

\* the array after the element v, which is followed, white space apart, by
\* the character at j
elementsAfter(s, items, v, j) ==
    IF charAt(s, j, ",") THEN parseElements(s, j + 1, Append(items, v.val))
    ELSE IF charAt(s, j, "]")
    THEN parsedAs([type |-> "array", items |-> Append(items, v.val)], j + 1)
    ELSE SyntaxError

elementsWith(s, items, v) ==
    IF v.ok THEN elementsAfter(s, items, v, skipSpace(s, v.next)) ELSE SyntaxError

\* the elements of an array from i on, after those of items
parseElements(s, i, items) == elementsWith(s, items, parseValue(s, skipSpace(s, i)))

\* the object after the member of key k and value v, which is followed,
\* white space apart, by the character at j
membersAfter(s, keys, vals, k, v, j) ==
    IF charAt(s, j, ",")
    THEN parseMembers(s, j + 1, Append(keys, k.val.str), Append(vals, v.val))
    ELSE IF charAt(s, j, "}")
    THEN parsedAs([type |-> "object", keys |-> Append(keys, k.val.str),
                   vals |-> Append(vals, v.val)], j + 1)
    ELSE SyntaxError

membersWith(s, keys, vals, k, v) ==
    IF v.ok THEN membersAfter(s, keys, vals, k, v, skipSpace(s, v.next)) ELSE SyntaxError

membersAtColon(s, keys, vals, k, colon) ==
    IF charAt(s, colon, ":")
    THEN membersWith(s, keys, vals, k, parseValue(s, skipSpace(s, colon + 1)))
    ELSE SyntaxError

membersWithKey(s, keys, vals, k) ==
    IF k.ok THEN membersAtColon(s, keys, vals, k, skipSpace(s, k.next)) ELSE SyntaxError

membersAt(s, i, keys, vals) ==
    IF charAt(s, i, "\"") THEN membersWithKey(s, keys, vals, parseString(s, i))
    ELSE SyntaxError

\* the members of an object from i on, after those of keys and vals
parseMembers(s, i, keys, vals) == membersAt(s, skipSpace(s, i), keys, vals)

\* the array whose bracket is followed, white space apart, by the character at j
arrayAt(s, i, j) ==
    IF charAt(s, j, "]") THEN parsedAs([type |-> "array", items |-> << >>], j + 1)
    ELSE parseElements(s, i + 1, << >>)

\* the object whose brace is followed, white space apart, by the character at j
objectAt(s, i, j) ==
    IF charAt(s, j, "}")
    THEN parsedAs([type |-> "object", keys |-> << >>, vals |-> << >>], j + 1)
    ELSE parseMembers(s, i + 1, << >>, << >>)

\* the JSON value that begins at i
parseValue(s, i) ==
    IF i > Len(s) THEN SyntaxError
    ELSE IF Ch(s, i) = "\"" THEN parseString(s, i)
    ELSE IF startsWith(From(s, i), "null") THEN parsedAs([type |-> "null"], i + 4)
    ELSE IF startsWith(From(s, i), "true") THEN parsedAs([type |-> "boolean"], i + 4)
    ELSE IF startsWith(From(s, i), "false") THEN parsedAs([type |-> "boolean"], i + 5)
    ELSE IF Ch(s, i) = "[" THEN arrayAt(s, i, skipSpace(s, i + 1))
    ELSE IF Ch(s, i) = "{" THEN objectAt(s, i, skipSpace(s, i + 1))
    ELSE parseNumber(s, i)

\* the value v when nothing but white space follows it in the text
wholeText(text, v) ==
    IF ~v.ok THEN << >>
    ELSE IF skipSpace(text, v.next) = Len(text) + 1 THEN <<v.val>>
    ELSE << >>

\* JSON.parse(text): << >> when it throws, <<value>> otherwise
jsonParse(text) == wholeText(text, parseValue(text, skipSpace(text, 1)))

objectOrArray(parsed) ==
    IF parsed = << >> THEN << >>
    ELSE IF parsed[1].type \notin {"object", "array"} THEN << >>
    ELSE parsed

\* << >>: null
tryParseUnknownJson(text) == objectOrArray(jsonParse(text))

\* the largest and the least of a set of numbers
greatest(set) == CHOOSE i \in set : \A j \in set : j <= i

least(set) == CHOOSE i \in set : \A j \in set : i <= j

bracesFrom(text, open, closes) ==
    IF closes = {} THEN << >> ELSE <<SubSeq(text, open, greatest(closes))>>

bracesIn(text, opens) ==
    IF opens = {} THEN << >>
    ELSE bracesFrom(text, least(opens),
                    { i \in 1..Len(text) : Ch(text, i) = "}" /\ i > least(opens) })

\* text.match(/\{[\s\S]*\}/): from the first "{" to the last "}" after it
matchBraces(text) == bracesIn(text, { i \in 1..Len(text) : Ch(text, i) = "{" })

isObject(parsed) == parsed # << >> /\ parsed[1].type # "array"

objectOfMatch(match) ==
    IF match = << >> THEN << >>
    ELSE IF isObject(tryParseUnknownJson(match[1])) THEN tryParseUnknownJson(match[1])
    ELSE << >>

tryParseJsonObject(text) ==
    IF isObject(tryParseUnknownJson(text)) THEN tryParseUnknownJson(text)
    ELSE objectOfMatch(matchBraces(text))

parseFrameAssessment(text) ==
    IF tryParseJsonObject(text) = << >>
    THEN [type |-> "object", keys |-> << >>, vals |-> << >>]
    ELSE tryParseJsonObject(text)[1]

memberAt(object, at) ==
    IF at = {} THEN [type |-> "undefined"] ELSE object.vals[greatest(at)]

\* object[key]: the member of that key written last, or undefined
member(object, key) ==
    memberAt(object, { i \in 1..Len(object.keys) : object.keys[i] = key })

\* left ?? right
nullish(left, right) == IF left.type \in {"null", "undefined"} THEN right ELSE left

(***************************************************************************)
(* Timestamps: Date.prototype.toISOString and Date.parse on the format     *)
(* YYYY-MM-DDTHH:mm:ss.sssZ, in milliseconds since 1970.                   *)
(***************************************************************************)
MS_PER_DAY == 86400000

\* the decimal digits of n, at least `width` of them
RECURSIVE padStart(_, _)
padStart(n, width) ==
    IF n < 10 /\ width <= 1 THEN Ch("0123456789", n + 1)
    ELSE padStart(n \div 10, width - 1) \o Ch("0123456789", (n % 10) + 1)

\* the number written by the digits of s
RECURSIVE digitsValue(_)
digitsValue(s) ==
    IF s = "" THEN 0
    ELSE digitsValue(SubSeq(s, 1, Len(s) - 1)) * 10
             + (CHOOSE d \in 0..9 : Ch("0123456789", d + 1) = Ch(s, Len(s)))

\* the day of the year that begins in March
dayOfYear(month, day) ==
    (153 * (IF month > 2 THEN month - 3 ELSE month + 9) + 2) \div 5 + day - 1

\* the day of the era of 400 years
dayOfEra(yoe, doy) == yoe * 365 + yoe \div 4 - yoe \div 100 + doy

daysOf(y, month, day) ==
    (y \div 400) * 146097 + dayOfEra(y % 400, dayOfYear(month, day)) - 719468

\* the day of the proleptic Gregorian calendar, in days since 1970-01-01
daysFromCivil(year, month, day) ==
    daysOf(IF month <= 2 THEN year - 1 ELSE year, month, day)

yearOfEra(doe) == (doe - doe \div 1460 + doe \div 36524 - doe \div 146096) \div 365

civilOfMonth(y, mp, doy) ==
    [year |-> y + (IF mp < 10 THEN 0 ELSE 1),
     month |-> IF mp < 10 THEN mp + 3 ELSE mp - 9,
     day |-> doy - (153 * mp + 2) \div 5 + 1]

civilOfDay(y, doy) == civilOfMonth(y, (5 * doy + 2) \div 153, doy)

civilOfYear(era, doe, yoe) ==
    civilOfDay(yoe + era * 400, doe - (365 * yoe + yoe \div 4 - yoe \div 100))

civilOfEra(era, doe) == civilOfYear(era, doe, yearOfEra(doe))

\* the year, month and day of the day `days` since 1970-01-01
civilFromDays(days) ==
    civilOfEra((days + 719468) \div 146097, (days + 719468) % 146097)

isoOfDate(date, inDay) ==
    padStart(date.year, 4) \o "-" \o padStart(date.month, 2) \o "-"
        \o padStart(date.day, 2) \o "T" \o padStart(inDay \div 3600000, 2) \o ":"
        \o padStart((inDay \div 60000) % 60, 2) \o ":"
        \o padStart((inDay \div 1000) % 60, 2) \o "."
        \o padStart(inDay % 1000, 3) \o "Z"

\* new Date(ms).toISOString()
toISOString(ms) == isoOfDate(civilFromDays(ms \div MS_PER_DAY), ms % MS_PER_DAY)

\* the value Date.parse gives for a text that is not a date
NaN == -1

isDigits(s) == \A i \in 1..Len(s) : Ch(s, i) \in DigitChars

daysInMonth(year, month) ==
    IF month = 2
    THEN IF year % 4 = 0 /\ (year % 100 # 0 \/ year % 400 = 0) THEN 29 ELSE 28
    ELSE IF month \in {4, 6, 9, 11} THEN 30 ELSE 31

timeOf(year, month, day, hours, minutes, seconds, millis) ==
    IF month \notin 1..12 \/ day \notin 1..daysInMonth(year, month)
       \/ hours > 24 \/ minutes > 59 \/ seconds > 59
       \/ (hours = 24 /\ minutes + seconds + millis > 0)
    THEN NaN
    ELSE daysFromCivil(year, month, day) * MS_PER_DAY + hours * 3600000
             + minutes * 60000 + seconds * 1000 + millis

\* Date.parse(text)
dateParse(text) ==
    IF Len(text) # 24 THEN NaN
    ELSE IF <<Ch(text, 5), Ch(text, 8), Ch(text, 11), Ch(text, 14), Ch(text, 17),
              Ch(text, 20), Ch(text, 24)>> # <<"-", "-", "T", ":", ":", ".", "Z">>
    THEN NaN
    ELSE IF ~isDigits(SubSeq(text, 1, 4) \o SubSeq(text, 6, 7) \o SubSeq(text, 9, 10)
                      \o SubSeq(text, 12, 13) \o SubSeq(text, 15, 16)
                      \o SubSeq(text, 18, 19) \o SubSeq(text, 21, 23))
    THEN NaN
    ELSE timeOf(digitsValue(SubSeq(text, 1, 4)), digitsValue(SubSeq(text, 6, 7)),
                digitsValue(SubSeq(text, 9, 10)), digitsValue(SubSeq(text, 12, 13)),
                digitsValue(SubSeq(text, 15, 16)), digitsValue(SubSeq(text, 18, 19)),
                digitsValue(SubSeq(text, 21, 23)))

(***************************************************************************)
(* The inputs of the model and its bounds.                                 *)
(***************************************************************************)
\* Date.now() at start-up and the step of the clock
StartMs == 1000000

TickMs == 60000

RecipeIdeas == {"pancakes"}

UserMessages == {"ok"}

TimerLabels == {"eggs"}

\* the next_step arguments the model sends to set_panel
RawSteps ==
    {"Grab 2 eggs.",
     "grab the eggs",
     "Next step: Crack the eggs into a bowl. Then whisk.",
     "Crack eggs then whisk",
     "Step 2:"}

\* a next_step argument made of punctuation only: it sanitizes to "!", a step
\* whose normalized key is empty
PunctuationSteps == {"!!"}

PanelSteps == RawSteps \cup PunctuationSteps

\* step texts of twelve words and more
LongSteps ==
    {"Put the two eggs with the cup of milk in the big blue bowl now",
     "Put one egg in the pan on the hob by the sink ."}

AllSteps == PanelSteps \cup LongSteps

\* the message arguments the model sends to speak
SpeechMessages ==
    {"Stop, the pan is on fire!",
     "Grab the eggs.",
     "Is the butter melted?"}

\* a routine preference question that also matches an urgency keyword
PreferenceMessages == {"Which pan is on fire?"}

\* a routine remark about another step than "Grab 2 eggs."
OffStepMessages == {"Whisk the batter."}

Messages == SpeechMessages \cup PreferenceMessages \cup OffStepMessages

\* the clock of every specification stops after ClockTicks steps at the latest
ClockTicks == 3

ClockTimes == { StartMs + k * TickMs : k \in 0..ClockTicks }

\* the takenAt of the body of POST /api/frame, when it has one: a time before
\* start-up, one after it, a text that is no date, blanks
SuppliedTimestamps ==
    {"1970-01-01T00:16:30.000Z", "1970-01-01T00:16:50.000Z", "yesterday", "  "}

\* the outcome of the vision call: it throws, or it answers with a response
\* whose output_text is a text, or NULL for one that is not a string
callThrows == [threw |-> TRUE, output_text |-> NULL]

answers(output_text) == [threw |-> FALSE, output_text |-> output_text]

\* the answer that is the JSON object with that step_status and nothing else
saw(status) == answers("{\"step_status\":\"" \o status \o "\"}")

\* what the vision call does in most specifications: a valid step_status, or
\* a call that throws
VisionOutputs == {saw("in_progress"), saw("complete"), callThrows}

\* answers without a JSON object of their own
UnparsedTexts ==
    {"", "complete", "\"complete\"", "[1, 2]", "null", "{\"step_status\":\"complete\"",
     "{\"step_status\":\"complete\",}", "{} and {\"step_status\":\"complete\"}"}

\* answers with a JSON object that has no valid step_status
UnjudgedTexts ==
    {"{\"observation\":\"Two eggs on the bench\"}", " { } ", "{\"step_status\":\"done\"}",
     "{\"step_status\":3}", "{\"step_status\":[\"complete\"]}",
     "{\"step\":{\"step_status\":\"complete\"}}", "{\"step_status\":null}",
     "{\"step_status\":\"Complete\",\"confidence\":0.9}"}

\* answers with a JSON object and a valid step_status (never "unclear"), in
\* prose, in an array, under the other name, or stated twice
JudgedTexts ==
    {"Sure: {\"step_status\": \"in_progress\", \"confidence\": 0.9} ok",
     "[{\"step_status\":\"complete\"}]",
     "{\"step_status\":null,\"stepStatus\":\"complete\"}",
     "{\"step_status\":\"in_progress\",\"step_status\":\"not_started\"}"}

\* a vision call that failed or whose answer is malformed
MalformedOutputs ==
    {callThrows, answers(NULL)} \cup { answers(text) : text \in UnparsedTexts \cup UnjudgedTexts }

JudgedOutputs == VisionOutputs \cup { answers(text) : text \in JudgedTexts }

AllVisionOutputs == JudgedOutputs \cup MalformedOutputs

(***************************************************************************)
(* The text functions on the texts of the model, evaluated once.           *)
(***************************************************************************)
\* outputText of analyzeFrame
outputTextOf(out) ==
    IF out.threw THEN ""
    ELSE IF out.output_text = NULL THEN ""
    ELSE out.output_text

\* parsed.step_status ?? parsed.stepStatus of analyzeFrame
stepStatusField(out) ==
    nullish(member(parseFrameAssessment(outputTextOf(out)), "step_status"),
            member(parseFrameAssessment(outputTextOf(out)), "stepStatus"))

stepStatusFieldOf == [out \in AllVisionOutputs |-> stepStatusField(out)]

isoOf == [ms \in ClockTimes |-> toISOString(ms)]

timestampOf ==
    [text \in { isoOf[ms] : ms \in ClockTimes } \cup SuppliedTimestamps |-> dateParse(text)]

sanitizedOf == [s \in AllSteps |-> sanitizePanelStep(s)]

\* the texts a step can be locked or pending with
StepTexts == { sanitizedOf[s] : s \in AllSteps } \ {""}

tooBroadOf == [s \in StepTexts |-> isStepTooBroad(s)]

stepKeyOf == [s \in StepTexts |-> normalizeStepKey(s)]

sameStepOf == [l \in StepTexts, r \in StepTexts |-> isSameStep(l, r)]

urgentOf == [m \in Messages |-> isUrgentMessage(m)]

questionOf == [m \in Messages |-> isQuestion(m)]

\* the body of messageMatchesCurrentStep for a locked step
messageMatchesStep(step, message) ==
    IF atLeastPct(tokenOverlap(step, message), RELATED_OVERLAP_PCT) THEN TRUE
    ELSE LET messageKey == normalizeStepKey(message)
             stepKey == normalizeStepKey(step)
         IN  IF messageKey = "" \/ stepKey = "" THEN TRUE
             ELSE includes(messageKey, stepKey) \/ includes(stepKey, messageKey)

matchesStepOf == [s \in StepTexts, m \in Messages |-> messageMatchesStep(s, m)]

\* text.replace(/\s+/g, " ").trim().toLowerCase()
speakTextKey(text) == toLowerCase(trim(collapseWhitespace(text)))

PREFERENCE_WORDS ==
    {"kind", "type", "brand", "milk", "flour", "pan", "oil", "butter", "sugar", "salt"}

\* isQuestion && /\b(what|which)\b.*\b(kind|...|salt)\b/i.test(text)
isRoutinePreferenceQuestion(text) ==
    LET l == toLowerCase(text)
    IN  /\ isQuestion(text)
        /\ \E i, j \in 1..Len(l) : \E w1 \in {"what", "which"}, w2 \in PREFERENCE_WORDS :
              /\ wordAt(l, w1, i)
              /\ wordAt(l, w2, j)
              /\ j >= i + Len(w1)
              /\ \A k \in (i + Len(w1))..(j - 1) : Ch(l, k) \notin LineTerminators

textKeyOf == [m \in Messages |-> speakTextKey(m)]

preferenceQuestionOf == [m \in Messages |-> isRoutinePreferenceQuestion(m)]

(***************************************************************************)
(* Recipes: server.ts, the pure helpers of the recipe catalog.             *)
(***************************************************************************)
\* s.replace(/'/g, "")
RECURSIVE removeApostrophes(_)
removeApostrophes(s) ==
    IF s = "" THEN ""
    ELSE IF Ch(s, 1) = "'" THEN removeApostrophes(From(s, 2))
         ELSE Ch(s, 1) \o removeApostrophes(From(s, 2))

\* s.replace(/[^a-z0-9]+/g, " ")
RECURSIVE spaceOutNonAlnum(_)
spaceOutNonAlnum(s) ==
    IF s = "" THEN ""
    ELSE IF Ch(s, 1) \notin AlnumLower
         THEN " " \o spaceOutNonAlnum(From(s, Len(prefixNotIn(s, AlnumLower)) + 1))
         ELSE Ch(s, 1) \o spaceOutNonAlnum(From(s, 2))

normalizeDishKey(input) ==
    collapseWhitespace(trim(spaceOutNonAlnum(removeApostrophes(toLowerCase(input)))))

\* the characters in the order String.prototype.localeCompare(.., "en") gives
\* them at the first level: white space, punctuation, symbols, digits, letters
COLLATION_ORDER ==
    " _-,;:!?.'()[]{}@*/&#%^+<=>|~$0123456789abcdefghijklmnopqrstuvwxyz"

\* the place of the character c in that order, letters without their case
collationRank(c) ==
    IF \E i \in 1..Len(COLLATION_ORDER) : Ch(COLLATION_ORDER, i) = lowerChar(c)
    THEN CHOOSE i \in 1..Len(COLLATION_ORDER) : Ch(COLLATION_ORDER, i) = lowerChar(c)
    ELSE 0

\* a.localeCompare(b, "en") at the first level: -1, 0 or 1
RECURSIVE comparePrimary(_, _)
comparePrimary(a, b) ==
    IF a = "" THEN (IF b = "" THEN 0 ELSE -1)
    ELSE IF b = "" THEN 1
    ELSE IF collationRank(Ch(a, 1)) < collationRank(Ch(b, 1)) THEN -1
    ELSE IF collationRank(Ch(a, 1)) > collationRank(Ch(b, 1)) THEN 1
    ELSE comparePrimary(From(a, 2), From(b, 2))

\* the case level, for texts equal at the first level: lower case first
RECURSIVE compareCase(_, _)
compareCase(a, b) ==
    IF a = "" \/ b = "" THEN 0
    ELSE IF Ch(a, 1) = Ch(b, 1) THEN compareCase(From(a, 2), From(b, 2))
    ELSE IF Ch(a, 1) = lowerChar(Ch(a, 1)) THEN -1
    ELSE 1

\* a.localeCompare(b, "en")
localeCompare(a, b) ==
    IF comparePrimary(a, b) # 0 THEN comparePrimary(a, b) ELSE compareCase(a, b)

\* `sorted` with the entry e put behind the entries that do not come after it
RECURSIVE insertByDish(_, _)
insertByDish(sorted, e) ==
    IF sorted = << >> THEN <<e>>
    ELSE IF localeCompare(e.dish, sorted[Len(sorted)].dish) >= 0 THEN Append(sorted, e)
    ELSE Append(insertByDish(SubSeq(sorted, 1, Len(sorted) - 1), e), sorted[Len(sorted)])

\* recipes.sort((a, b) => a.dish.localeCompare(b.dish, "en")): a stable sort
RECURSIVE sortByDish(_)
sortByDish(recipes) ==
    IF recipes = << >> THEN << >>
    ELSE insertByDish(sortByDish(SubSeq(recipes, 1, Len(recipes) - 1)),
                      recipes[Len(recipes)])

\* recipes.findIndex((entry) => entry.dishKey === dishKey), from 1; 0: none
findIndexOfKey(recipes, dishKey) ==
    IF \E i \in 1..Len(recipes) : recipes[i].dishKey = dishKey
    THEN CHOOSE i \in 1..Len(recipes) :
             /\ recipes[i].dishKey = dishKey
             /\ \A j \in 1..(i - 1) : recipes[j].dishKey # dishKey
    ELSE 0

\* tokenizeDishKey: the words of the normalized key
tokenizeDishKey(input) ==
    IF normalizeDishKey(input) = "" THEN << >> ELSE splitWords(normalizeDishKey(input))

\* numbers of scoreDishMatch as pairs <<numerator, denominator>>
fracLess(a, b) == a[1] * b[2] < b[1] * a[2]

fracMax(a, b) == IF fracLess(a, b) THEN b ELSE a

fracMin(a, b) == IF fracLess(b, a) THEN b ELSE a

fracPlus(a, b) == <<a[1] * b[2] + b[1] * a[2], a[2] * b[2]>>

fracTimes(a, b) == <<a[1] * b[1], a[2] * b[2]>>

\* the score of a key that contains the other key
CONTAINED_SCORE == <<95, 100>>

\* the weight of the coverage of the query
COVERAGE_WEIGHT == <<9, 10>>

\* the bonus for the same first token
PREFIX_BONUS == <<8, 100>>

\* the least score of a fuzzy match
MIN_FUZZY_SCORE == <<62, 100>>

\* the query tokens, each time they occur, that are among the candidate tokens
sharedTokens(queryTokens, candidateTokens) ==
    Cardinality({ i \in 1..Len(queryTokens) : queryTokens[i] \in Range(candidateTokens) })

\* scoreDishMatch from the tokens on
scoreTokens(queryTokens, candidateTokens) ==
    IF Len(queryTokens) = 0 \/ Len(candidateTokens) = 0 THEN <<0, 1>>
    ELSE IF sharedTokens(queryTokens, candidateTokens) = 0 THEN <<0, 1>>
    ELSE fracMin(<<1, 1>>,
                 fracPlus(fracMax(<<sharedTokens(queryTokens, candidateTokens),
                                    Min(Len(queryTokens), Len(candidateTokens))>>,
                                  fracTimes(<<sharedTokens(queryTokens, candidateTokens),
                                              Len(queryTokens)>>,
                                            COVERAGE_WEIGHT)),
                          IF candidateTokens[1] = queryTokens[1]
                          THEN PREFIX_BONUS
                          ELSE <<0, 1>>))

\* scoreDishMatch
scoreDishMatch(queryKey, candidateKey) ==
    IF queryKey = "" \/ candidateKey = "" THEN <<0, 1>>
    ELSE IF queryKey = candidateKey THEN <<1, 1>>
    ELSE IF includes(candidateKey, queryKey) \/ includes(queryKey, candidateKey)
         THEN CONTAINED_SCORE
    ELSE scoreTokens(tokenizeDishKey(queryKey), tokenizeDishKey(candidateKey))

\* the loop of findBestFuzzyDishMatch from the entry i on: the place of the
\* best entry (0: none) and its score
RECURSIVE bestFrom(_, _, _, _, _)
bestFrom(queryKey, recipes, i, bestScore, bestRecipe) ==
    IF i > Len(recipes) THEN [score |-> bestScore, recipe |-> bestRecipe]
    ELSE IF fracLess(bestScore, scoreDishMatch(queryKey, recipes[i].dishKey))
         THEN bestFrom(queryKey, recipes, i + 1,
                       scoreDishMatch(queryKey, recipes[i].dishKey), i)
    ELSE bestFrom(queryKey, recipes, i + 1, bestScore, bestRecipe)

\* findBestFuzzyDishMatch without the test of the score
findBestFuzzyDishMatchOfAnyScore(queryKey, recipes) ==
    bestFrom(queryKey, recipes, 1, <<0, 1>>, 0).recipe

\* findBestFuzzyDishMatch: the place of the entry in recipes, 0 for null
findBestFuzzyDishMatch(queryKey, recipes) ==
    IF \/ fracLess(bestFrom(queryKey, recipes, 1, <<0, 1>>, 0).score, MIN_FUZZY_SCORE)
       \/ bestFrom(queryKey, recipes, 1, <<0, 1>>, 0).recipe = 0
    THEN 0
    ELSE bestFrom(queryKey, recipes, 1, <<0, 1>>, 0).recipe

\* RecipeStore.lookupByDish on the recipes read from the file
lookupByDish(dishQuery, recipes) ==
    IF normalizeDishKey(trim(dishQuery)) = ""
    THEN [found |-> FALSE, query |-> trim(dishQuery), matchType |-> "none", recipe |-> << >>]
    ELSE IF findIndexOfKey(recipes, normalizeDishKey(trim(dishQuery))) > 0
    THEN [found |-> TRUE, query |-> trim(dishQuery), matchType |-> "exact",
          recipe |-> <<recipes[findIndexOfKey(recipes, normalizeDishKey(trim(dishQuery)))]>>]
    ELSE IF findBestFuzzyDishMatch(normalizeDishKey(trim(dishQuery)), recipes) > 0
    THEN [found |-> TRUE, query |-> trim(dishQuery), matchType |-> "fuzzy",
          recipe |-> <<recipes[findBestFuzzyDishMatch(normalizeDishKey(trim(dishQuery)),
                                                      recipes)]>>]
    ELSE [found |-> FALSE, query |-> trim(dishQuery), matchType |-> "none", recipe |-> << >>]

\* what lookupRecipe returns for the answer of the store
lookupResult(dish, lookup) ==
    IF ~lookup.found \/ lookup.recipe = << >>
    THEN [found |-> FALSE, query |-> dish, matchType |-> "none"]
    ELSE [found |-> TRUE, query |-> dish, matchType |-> lookup.matchType,
          dish |-> lookup.recipe[1].dish,
          dishKey |-> lookup.recipe[1].dishKey,
          recipe |-> lookup.recipe[1].recipe,
          completedAt |-> lookup.recipe[1].completedAt,
          timesCooked |-> lookup.recipe[1].timesCooked]

NEGATIONS == {"not", "isn't", "isnt", "don't", "dont"}

FINISHED_WORDS == {"done", "finished", "complete", "completed"}

COMPLETION_PHRASES ==
    {"done", "finished", "all done", "complete", "completed", "that's it", "thats it",
     "we're done", "were done", "we are done", "it's done", "its done"}

COMPLETION_QUESTION_WORDS ==
    {"done", "finished", "complete", "completed", "wrap up", "stop now"}

AFFIRMATIVES == {"yes", "yep", "yeah", "correct", "sure", "ok", "okay", "affirmative"}

\* /\b(not|isn't|isnt|don't|dont)\s+(done|finished|complete|completed)\b/.test(s)
negatesCompletion(s) ==
    \E i \in 1..Len(s) : \E n \in NEGATIONS, f \in FINISHED_WORDS :
        /\ startsWith(From(s, i), n)
        /\ (i = 1 \/ Ch(s, i - 1) \notin WordChars)
        /\ LET gap == prefixIn(From(s, i + Len(n)), SpaceChars)
           IN  /\ gap # ""
               /\ startsWith(From(s, i + Len(n) + Len(gap)), f)
               /\ LET after == i + Len(n) + Len(gap) + Len(f)
                  IN  after > Len(s) \/ Ch(s, after) \notin WordChars

\* s without its trailing "." and "!"
RECURSIVE dropClosingMarks(_)
dropClosingMarks(s) ==
    IF s # "" /\ Ch(s, Len(s)) \in {".", "!"}
    THEN dropClosingMarks(SubSeq(s, 1, Len(s) - 1))
    ELSE s

userConfirmedCompletion(message, waitingForAnswer, lastQuestion) ==
    LET normalized == toLowerCase(trim(message))
    IN  IF normalized = "" THEN FALSE
        ELSE IF negatesCompletion(normalized) THEN FALSE
        ELSE IF \E w \in COMPLETION_PHRASES : hasWord(normalized, w) THEN TRUE
        ELSE IF ~waitingForAnswer THEN FALSE
        ELSE /\ \E w \in COMPLETION_QUESTION_WORDS : hasWord(toLowerCase(lastQuestion), w)
             /\ dropClosingMarks(normalized) \in AFFIRMATIVES

\* the dishes of the sessions that save recipes, the dish arguments of
\* complete_recipe, the recipe text and the user messages of those sessions
SessionDishes == {"pancakes", "omelette"}

DishArgs == {"Pancakes!", "Omelette", "!!"}

RecipeText == "Mix, fry, serve."

RecipeMessages == {"All done!", "Not done yet."}

dishKeyOf == [d \in RecipeIdeas \cup SessionDishes \cup DishArgs |-> normalizeDishKey(d)]

confirmsOf ==
    [m \in UserMessages \cup RecipeMessages, w \in BOOLEAN, q \in {""} \cup Messages |->
        userConfirmedCompletion(m, w, q)]

(***************************************************************************)
(* State.                                                                  *)
(***************************************************************************)
VARIABLES
    \* BrowserCookingAssistant
    queue,                   \* the task whose settling resolves this.queue; 0: resolved
    currentDish,
    currentStep,
    pendingNextStep,
    latestFrameAssessment,   \* << >>: null; <<assessment>> otherwise
    frameAllowsStepAdvance,
    visionHistory,
    completedStepKeys,
    lastRoutineSpeakAtMs,
    previousResponseId,      \* << >>: undefined; <<t, r>>: the id of the response
                             \* the task t received after r rounds of tool results
    \* server.ts main
    panel,                   \* << >>: null; <<panel>> otherwise
    lastSpokenTextKey,
    lastSpokenAtMs,
    waitingForUserAnswer,
    lastQuestionAtMs,
    lastQuestionText,
    requireVoice,
    \* CookingStateStore
    completedSteps,
    \* TimerManager
    timers,                  \* the labels of this.timers
    timeoutOf,               \* label -> the timeout of its entry of this.timers, named
                             \* by the function call that created it
    armed,                   \* the timeouts Node holds: set and neither run nor cleared
    \* server.ts main: the overlay
    overlay,                 \* << >>: null; <<the OverlayPayload>> otherwise
    overlayTimeout,          \* << >>: null; the timeout of the overlay otherwise
    overlayArmed,            \* the timeouts of setOverlay Node holds
    \* server.ts main: the recipe of the session
    activeDishKey,
    recipeStoredForSession,
    completionConfirmedForSession,
    \* RecipeStore: the recipes of data/recipes/recipes.yaml
    catalog,
    \* the event loop: the tasks handed to enqueue, in that order, and the clock
    tasks,
    now,
    \* history: the tasks in the order they began to run, whether the step was
    \* advanced since the last frame was ingested, the last set_panel gate
    \* decision and the last speak request
    startOrder,
    advancedSinceFrame,
    lastGate,
    lastSpeak,
    \* history: whether a user message confirmed completion since the last
    \* session start or reset, and the catalog writes since then
    sessionConfirmed,
    sessionSaves,
    \* web/app.js: the capture loop of the browser
    sessionStarted,
    captureLoopToken,
    captureTimer,            \* the loop token of the timeout it holds; 0: null
    frameInFlight,
    \* the browser's event loop: the loop tokens of the timeouts that are set,
    \* the loop tokens of the POST /api/frame requests without a response, and
    \* the transcripts whose request has no response yet
    timeouts,
    frameRequests,
    transcripts,
    \* web/app.js: the speech of the assistant
    speechQueue,             \* the speech events waiting, named 1, 2, .. as received
    drainingSpeech,
    audio,                   \* << >>: drainSpeechQueue is not waiting; <<a>>: it awaits
                             \* audio.play() (a.pc = "play") or the end of the audio
                             \* (a.pc = "ended") of the event a.event
    heard                    \* the events drainSpeechQueue is done with and how each ended

assistantVars ==
    <<queue, currentDish, currentStep, pendingNextStep, latestFrameAssessment,
      frameAllowsStepAdvance, visionHistory, completedStepKeys, lastRoutineSpeakAtMs>>

speechVars ==
    <<lastSpokenTextKey, lastSpokenAtMs, waitingForUserAnswer, lastQuestionAtMs,
      lastQuestionText>>

historyVars == <<startOrder, advancedSinceFrame, lastGate, lastSpeak>>

timerVars == <<timeoutOf, armed>>

overlayVars == <<overlay, overlayTimeout, overlayArmed>>

recipeVars ==
    <<activeDishKey, recipeStoredForSession, completionConfirmedForSession, catalog>>

saveHistory == <<sessionConfirmed, sessionSaves>>

recipeState == <<recipeVars, saveHistory>>

playerVars == <<speechQueue, drainingSpeech, audio, heard>>

browserVars ==
    <<sessionStarted, captureLoopToken, captureTimer, frameInFlight, timeouts,
      frameRequests, transcripts, playerVars>>

vars ==
    <<assistantVars, previousResponseId, panel, speechVars, requireVoice, completedSteps,
      timers, timerVars, tasks, now, historyVars, recipeState, overlayVars, browserVars>>

TaskIds == 1..Len(tasks)

Settled(t) == tasks[t].pc \in {"done", "failed"}

\* a promise reaction is due: the task runs before any other event is handled
Startable(t) ==
    /\ tasks[t].pc = "queued"
    /\ IF tasks[t].pred = 0 THEN TRUE ELSE Settled(tasks[t].pred)

\* the task has begun and has not settled
Running(t) ==
    tasks[t].pc \in {"vision", "model", "exec", "tts", "readFile", "writeFile", "lookupFile"}

\* the task is suspended in an awaited external call
Awaiting(t) ==
    tasks[t].pc \in {"vision", "model", "tts", "readFile", "writeFile", "lookupFile"}

\* the microtask queue is empty: the event loop takes the next event
Quiescent == \A t \in TaskIds : tasks[t].pc # "exec" /\ ~Startable(t)

NoSpeak == [text |-> NULL, outcome |-> "none"]

NoGate == [called |-> FALSE]

\* the state after construction; REQUIRE_VOICE is one of voiceSettings and
\* the recipe file holds one of `files`
InitFrom(voiceSettings, files) ==
    /\ queue = 0
    /\ currentDish = ""
    /\ currentStep = NULL
    /\ pendingNextStep = NULL
    /\ latestFrameAssessment = << >>
    /\ frameAllowsStepAdvance = TRUE
    /\ visionHistory = << >>
    /\ completedStepKeys = {}
    /\ lastRoutineSpeakAtMs = 0
    /\ previousResponseId = << >>
    /\ panel = << >>
    /\ lastSpokenTextKey = ""
    /\ lastSpokenAtMs = 0
    /\ waitingForUserAnswer = FALSE
    /\ lastQuestionAtMs = 0
    /\ lastQuestionText = ""
    /\ requireVoice \in voiceSettings
    /\ completedSteps = << >>
    /\ timers = {}
    /\ timeoutOf = [label \in {} |-> << >>]
    /\ armed = {}
    /\ overlay = << >>
    /\ overlayTimeout = << >>
    /\ overlayArmed = {}
    /\ tasks = << >>
    /\ now = StartMs
    /\ startOrder = << >>
    /\ advancedSinceFrame = FALSE
    /\ lastGate = NoGate
    /\ lastSpeak = NoSpeak
    /\ activeDishKey = ""
    /\ recipeStoredForSession = FALSE
    /\ completionConfirmedForSession = FALSE
    /\ catalog \in files
    /\ sessionConfirmed = FALSE
    /\ sessionSaves = 0
    /\ sessionStarted = FALSE
    /\ captureLoopToken = 0
    /\ captureTimer = 0
    /\ frameInFlight = FALSE
    /\ timeouts = << >>
    /\ frameRequests = << >>
    /\ transcripts = << >>
    /\ speechQueue = << >>
    /\ drainingSpeech = FALSE
    /\ audio = << >>
    /\ heard = << >>

\* the state after construction when there is no recipe file yet
InitWith(voiceSettings) == InitFrom(voiceSettings, {<< >>})

\* REQUIRE_VOICE set either way
Init == InitWith(BOOLEAN)

\* REQUIRE_VOICE left at its default: getBooleanEnv("REQUIRE_VOICE", true)
InitDefault == InitWith({TRUE})

(***************************************************************************)
(* The step lock (assistant-browser.ts).                                   *)
(***************************************************************************)
\* the fields applyPanelStepGate may write, as they are before the call
gateFields ==
    [currentDish |-> currentDish,
     currentStep |-> currentStep,
     pendingNextStep |-> pendingNextStep,
     completedStepKeys |-> completedStepKeys,
     completedSteps |-> completedSteps,
     panel |-> panel,
     result |-> [ok |-> FALSE]]

\* markCurrentStepCompleted without the call of state.addCompletedStep
markCurrentStepCompletedKeyOnly(f) ==
    IF f.currentStep = NULL THEN f
    ELSE LET key == stepKeyOf[f.currentStep]
         IN  IF key = "" \/ key \in f.completedStepKeys THEN f
             ELSE [f EXCEPT !.completedStepKeys = @ \cup {key}]

\* the fields after this.markCurrentStepCompleted()
markCurrentStepCompleted(f) ==
    IF f.currentStep = NULL THEN f
    ELSE LET key == stepKeyOf[f.currentStep]
         IN  IF key = "" \/ key \in f.completedStepKeys THEN f
             ELSE [f EXCEPT !.completedStepKeys = @ \cup {key},
                            !.completedSteps = Append(@, f.currentStep)]

\* gateBlocked with the locked step overwritten before the rejection is returned
gateBlockedOverwriting(f1, nextStep) ==
    [f1 EXCEPT !.currentStep = nextStep,
               !.pendingNextStep = nextStep,
               !.result =
                   [ok |-> FALSE, blocked |-> TRUE,
                    reason |-> "current_step_not_visually_complete",
                    current_step |-> f1.currentStep,
                    requested_next_step |-> nextStep,
                    frame_status |->
                        IF latestFrameAssessment = << >> THEN "unknown"
                        ELSE latestFrameAssessment[1].stepStatus]]

\* the blocked branch of applyPanelStepGate: the request is kept as pending
\* and the rejection is returned
gateBlocked(f1, nextStep) ==
    [f1 EXCEPT !.pendingNextStep = nextStep,
               !.result =
                   [ok |-> FALSE, blocked |-> TRUE,
                    reason |-> "current_step_not_visually_complete",
                    current_step |-> f1.currentStep,
                    requested_next_step |-> nextStep,
                    frame_status |->
                        IF latestFrameAssessment = << >> THEN "unknown"
                        ELSE latestFrameAssessment[1].stepStatus]]

\* the rejection of a step that is too broad, with the request kept as pending
stepRejectedKeptPending(f0, nextStep) ==
    [f0 EXCEPT !.pendingNextStep = nextStep,
               !.result = [ok |-> FALSE, blocked |-> TRUE,
                           reason |-> "next_step_must_be_single_action"]]

\* applyPanelStepGate: the step is too broad; nothing was assigned yet
stepRejected(f0, nextStep) ==
    [f0 EXCEPT !.result = [ok |-> FALSE, blocked |-> TRUE,
                           reason |-> "next_step_must_be_single_action"]]

\* the first lock that waits for the flag
locksAtOnceWhenAllowed(step, nextStep) ==
    IF step = NULL THEN frameAllowsStepAdvance ELSE sameStepOf[step, nextStep]

\* applyPanelStepGate: no step is locked, or nextStep is the locked step
\* again, so that nextStep is locked without a look at the flag
locksAtOnce(step, nextStep) ==
    IF step = NULL THEN TRUE ELSE sameStepOf[step, nextStep]

\* applyPanelStepGate once requestedStep is sanitized to nextStep: f0 is the
\* fields before the call, f1 the fields with currentDish assigned
gateOutcome(f0, f1, cooking, nextStep) ==
    IF nextStep = ""
    THEN [f0 EXCEPT !.result = [ok |-> FALSE, error |-> "next_step is empty"]]
    ELSE IF tooBroadOf[nextStep]
    THEN stepRejected(f0, nextStep)
    ELSE IF locksAtOnce(f1.currentStep, nextStep)
    THEN [f1 EXCEPT !.currentStep = nextStep,
                    !.pendingNextStep = NULL,
                    !.panel = <<[cooking |-> cooking, nextStep |-> nextStep]>>,
                    !.result = [ok |-> TRUE, step_locked |-> nextStep,
                                advanced |-> FALSE]]
    ELSE IF ~frameAllowsStepAdvance
    THEN gateBlocked(f1, nextStep)
    ELSE [markCurrentStepCompleted(f1) EXCEPT
                    !.currentStep = nextStep,
                    !.pendingNextStep = NULL,
                    !.panel = <<[cooking |-> cooking, nextStep |-> nextStep]>>,
                    !.result = [ok |-> TRUE, advanced |-> TRUE,
                                current_step |-> nextStep]]

\* the fields and the tool result after applyPanelStepGate(cooking, requestedStep)
applyPanelStepGate(cooking, requestedStep) ==
    gateOutcome(gateFields,
                [gateFields EXCEPT !.currentDish = IF trim(cooking) # "" THEN trim(cooking)
                                                   ELSE @],
                cooking, sanitizedOf[requestedStep])

\* messageMatchesCurrentStep that finds every message related
messageMatchesCurrentStepAlways(message) == TRUE

messageMatchesCurrentStep(message) ==
    IF currentStep = NULL THEN TRUE ELSE matchesStepOf[currentStep, message]

\* getBlockedSpeakReason that blocks nothing
getBlockedSpeakReasonNever(message) == ""

\* the reason, or "" for null
getBlockedSpeakReason(message) ==
    IF currentStep = NULL \/ frameAllowsStepAdvance THEN ""
    ELSE IF urgentOf[message] \/ questionOf[message] THEN ""
    ELSE IF ~messageMatchesCurrentStep(message)
    THEN "blocked_next_step_until_visual_completion"
    ELSE IF now - lastRoutineSpeakAtMs < ROUTINE_SPEAK_MIN_GAP_MS
    THEN "step_waiting_repeat_suppressed"
    ELSE ""

(***************************************************************************)
(* The speech gate (server.ts, outputs.speak).                             *)
(***************************************************************************)
\* speakGate without the rule for routine preference questions
speakGateAskingPreferences(text) ==
    LET textKey == textKeyOf[text]
        question == questionOf[text]
        urgent == urgentOf[text]
    IN  IF textKey = lastSpokenTextKey /\ now - lastSpokenAtMs < speechRepeatCooldownMs
        THEN "duplicate_recent"
        ELSE IF waitingForUserAnswer /\ ~urgent
        THEN "awaiting_answer"
        ELSE IF question /\ waitingForUserAnswer
                /\ now - lastQuestionAtMs < questionRepeatCooldownMs
        THEN "question_repeat_too_soon"
        ELSE IF question /\ ~urgent /\ now - lastQuestionAtMs < minQuestionGapMs
        THEN "question_gap_too_short"
        ELSE "voice"

\* the part of outputs.speak before the synthesis: the rule that returns
\* without voicing, or "voice"
speakGate(text) ==
    LET textKey == textKeyOf[text]
        question == questionOf[text]
        urgent == urgentOf[text]
    IN  IF textKey = lastSpokenTextKey /\ now - lastSpokenAtMs < speechRepeatCooldownMs
        THEN "duplicate_recent"
        ELSE IF waitingForUserAnswer /\ ~urgent
        THEN "awaiting_answer"
        ELSE IF question /\ waitingForUserAnswer
                /\ now - lastQuestionAtMs < questionRepeatCooldownMs
        THEN "question_repeat_too_soon"
        ELSE IF preferenceQuestionOf[text]
        THEN "routine_preference_question"
        ELSE IF question /\ ~urgent /\ now - lastQuestionAtMs < minQuestionGapMs
        THEN "question_gap_too_short"
        ELSE "voice"

(***************************************************************************)
(* The session queue (assistant-browser.ts, enqueue).                      *)
(***************************************************************************)
NewTask(kind, text) ==
    [kind |-> kind,            \* "start", "frame", "user" or "timer"
     text |-> text,            \* the recipe idea, the message, the timer label
                               \* or frame.takenAt
     pred |-> queue,           \* the task this.queue waited for at enqueue; 0: none
     pc |-> "queued",
     step |-> 0,               \* the tool rounds submitted so far
     nCalls |-> 0,             \* the function calls of the model turn at hand
     idx |-> 0,                \* how many of them were executed
     toolResults |-> << >>,
     error |-> "",
     seenStep |-> NULL,        \* the locked step the vision call was asked about
     speech |-> << >>,         \* the locals of outputs.speak across the synthesis
     saving |-> << >>]         \* the locals of saveCompletedRecipe across its awaits

\* const next = this.queue.then(task, task);
\* this.queue = next.then(() => undefined, () => undefined); return next
\* (at most maxTasks tasks are ever enqueued)
enqueue(kind, text, maxTasks) ==
    /\ Len(tasks) < maxTasks
    /\ tasks' = Append(tasks, NewTask(kind, text))
    /\ queue' = Len(tasks) + 1

\* chainReaction for this.queue = this.queue.then(task): no rejection handler,
\* so a rejected predecessor rejects the task without running it
chainReactionUnhandled(predOutcome) ==
    IF predOutcome = "failed" THEN "reject" ELSE "run"

\* what the task chained by enqueue does once the task before it settled as
\* predOutcome: this.queue is fulfilled either way, and both callbacks of
\* then(task, task) are the task, so it runs
chainReaction(predOutcome) == "run"

Fail(t, err) ==
    [tasks EXCEPT ![t] = [@ EXCEPT !.pc = "failed", !.error = err, !.speech = << >>, !.saving = << >>]]

\* the function_call_output of the call at hand is pushed; after the last call
\* of the turn the results are submitted: await this.client.responses.create
Push(t, result) ==
    LET tk == tasks[t]
        last == tk.idx + 1 = tk.nCalls
    IN  [tasks EXCEPT ![t] =
            [tk EXCEPT !.toolResults = Append(@, [call_id |-> tk.idx + 1, output |-> result]),
                       !.idx = @ + 1,
                       !.speech = << >>,
                       !.saving = << >>,
                       !.pc = IF last THEN "model" ELSE "exec",
                       !.step = IF last THEN @ + 1 ELSE @]]

(***************************************************************************)
(* Events of the event loop: HTTP handlers (server.ts), timers, the clock. *)
(***************************************************************************)
\* POST /api/session/start, up to the call of initializeWithRecipeIdea (the
\* awaited recipeStore.findByDish before it only reads the recipe file); what
\* follows its await is in ModelReturns
PostSessionStart(recipeIdea, maxTasks) ==
    /\ Quiescent
    /\ sessionConfirmed' = FALSE
    /\ sessionSaves' = 0
    /\ UNCHANGED recipeVars
    /\ enqueue("start", recipeIdea, maxTasks)
    /\ UNCHANGED <<currentDish, currentStep, pendingNextStep, latestFrameAssessment,
                   frameAllowsStepAdvance, visionHistory, completedStepKeys,
                   lastRoutineSpeakAtMs, panel, speechVars, requireVoice, completedSteps,
                   timers, now, historyVars>>
    /\ UNCHANGED <<previousResponseId, timerVars, overlayVars, browserVars>>

\* POST /api/frame; takenAt: body.takenAt, NULL when it is not a string
PostFrame(takenAt, maxTasks) ==
    /\ UNCHANGED recipeState
    /\ Quiescent
    /\ enqueue("frame",
               IF takenAt = NULL THEN isoOf[now]
               ELSE IF trim(takenAt) = "" THEN isoOf[now]
               ELSE takenAt,
               maxTasks)
    /\ UNCHANGED <<currentDish, currentStep, pendingNextStep, latestFrameAssessment,
                   frameAllowsStepAdvance, visionHistory, completedStepKeys,
                   lastRoutineSpeakAtMs, panel, speechVars, requireVoice, completedSteps,
                   timers, now, historyVars>>
    /\ UNCHANGED <<previousResponseId, timerVars, overlayVars, browserVars>>

\* POST /api/user-message
PostUserMessage(message, maxTasks) ==
    /\ Quiescent
    /\ completionConfirmedForSession' =
           IF confirmsOf[message, waitingForUserAnswer, lastQuestionText]
           THEN TRUE
           ELSE completionConfirmedForSession
    /\ sessionConfirmed' =
           (sessionConfirmed \/ confirmsOf[message, waitingForUserAnswer, lastQuestionText])
    /\ UNCHANGED <<activeDishKey, recipeStoredForSession, catalog, sessionSaves>>
    /\ waitingForUserAnswer' = FALSE
    /\ lastQuestionText' = ""
    /\ enqueue("user", message, maxTasks)
    /\ UNCHANGED <<currentDish, currentStep, pendingNextStep, latestFrameAssessment,
                   frameAllowsStepAdvance, visionHistory, completedStepKeys,
                   lastRoutineSpeakAtMs, panel, lastSpokenTextKey, lastSpokenAtMs,
                   lastQuestionAtMs, requireVoice, completedSteps, timers, now,
                   historyVars>>
    /\ UNCHANGED <<previousResponseId, timerVars, overlayVars, browserVars>>

\* the TimerManager as the call at hand finds it, nothing emitted yet
timerManager ==
    [timers |-> timeoutOf, armed |-> armed, emitted |-> << >>]

\* Map.delete and Map.set
deleted(map, key) == [k \in DOMAIN map \ {key} |-> map[k]]

entrySet(map, key, value) ==
    [k \in DOMAIN map \cup {key} |-> IF k = key THEN value ELSE map[k]]

\* this.emit("changed", this.listActiveTimers()), recorded with the labels
\* this.timers holds when the event is emitted
emitChanged(m) ==
    [m EXCEPT !.emitted = Append(@, [type |-> "changed", active |-> DOMAIN m.timers])]

\* this.emit("fired", {...snapshot, firedAt})
emitFired(m, timeout) ==
    [m EXCEPT !.emitted = Append(@, [type |-> "fired", label |-> timeout.label,
                                     active |-> DOMAIN m.timers])]

\* clearTimeout(existing.timeout) on the timeouts Node holds
timeoutCleared(held, id) == {a \in held : a.id # id}

\* cancelTimer that deletes the entry and leaves its timeout to Node
cancelTimerLeavingTimeout(m, label) ==
    IF trim(label) \notin DOMAIN m.timers THEN m
    ELSE emitChanged([m EXCEPT !.timers = deleted(@, trim(label))])

\* TimerManager.cancelTimer: the manager after the call
cancelTimer(m, label) ==
    IF trim(label) \notin DOMAIN m.timers THEN m
    ELSE emitChanged([m EXCEPT !.armed = timeoutCleared(@, m.timers[trim(label)]),
                               !.timers = deleted(@, trim(label))])

\* what cancelTimer returns
cancelTimerReturns(m, label) == trim(label) \in DOMAIN m.timers

\* setTimer from setTimeout on: the timeout `id` is created and stored
timerStored(m, safeLabel, id) ==
    emitChanged([m EXCEPT !.armed = @ \cup {[id |-> id, label |-> safeLabel]},
                          !.timers = entrySet(@, safeLabel, id)])

\* TimerManager.setTimer with a label that is not blank; setTimeout returns `id`
setTimer(m, label, id) == timerStored(cancelTimer(m, trim(label)), trim(label), id)

\* TimerManager.clearAllTimers
clearAllTimers(m) ==
    [m EXCEPT !.armed = {a \in @ : \A l \in DOMAIN m.timers : m.timers[l] # a.id},
              !.timers = [label \in {} |-> << >>],
              !.emitted = Append(@, [type |-> "changed", active |-> {}])]

\* the callback setTimer gives to setTimeout, run by Node for `timeout`
timeoutCallback(m, timeout) ==
    emitFired(emitChanged([m EXCEPT !.armed = @ \ {timeout},
                                    !.timers = deleted(@, timeout.label)]),
              timeout)

\* the TimerManager after the call is m; m.emitted went to the listeners
timersBecome(m) ==
    /\ timers' = DOMAIN m.timers
    /\ timeoutOf' = m.timers
    /\ armed' = m.armed

\* the timeout of TimerManager.setTimer and the "fired" listener of server.ts
TimerFires(label, maxTasks) ==
    /\ UNCHANGED recipeState
    /\ Quiescent
    /\ \E timeout \in armed :
          /\ timeout.label = label
          /\ timersBecome(timeoutCallback(timerManager, timeout))
    /\ enqueue("timer", label, maxTasks)
    /\ UNCHANGED <<currentDish, currentStep, pendingNextStep, latestFrameAssessment,
                   frameAllowsStepAdvance, visionHistory, completedStepKeys,
                   lastRoutineSpeakAtMs, panel, speechVars, requireVoice, completedSteps,
                   now, historyVars>>
    /\ UNCHANGED <<previousResponseId, overlayVars, browserVars>>

\* server.ts as the call at hand finds its overlay
overlayState == [overlay |-> overlay, timeout |-> overlayTimeout, armed |-> overlayArmed]

\* if (overlayTimeout) { clearTimeout(overlayTimeout); overlayTimeout = null; }
timeoutDropped(o) ==
    IF o.timeout = << >> THEN o
    ELSE [o EXCEPT !.armed = @ \ {o.timeout}, !.timeout = << >>]

\* clearOverlay that leaves the timeout of the overlay running
clearOverlayLeavingTimeout(o) == [o EXCEPT !.overlay = << >>, !.timeout = << >>]

\* clearOverlay
clearOverlay(o) == [timeoutDropped(o) EXCEPT !.overlay = << >>]

\* update.ttlSeconds ? Math.max(1000, Math.round(update.ttlSeconds * 1000)) : null
\* with << >> for null and for a missing ttlSeconds
ttlMsOf(ttlSeconds) ==
    IF ttlSeconds = << >> \/ ttlSeconds[1] = 0 THEN << >>
    ELSE IF ttlSeconds[1] * 1000 < 1000 THEN <<1000>> ELSE <<ttlSeconds[1] * 1000>>

\* the OverlayPayload of setOverlay
overlayPayload(text, priority, ttlMs) ==
    [text |-> text,
     priority |-> priority,
     expiresAt |-> IF ttlMs = << >> THEN NULL ELSE toISOString(now + ttlMs[1])]

\* setOverlay once the timeout of the overlay before is dropped; setTimeout
\* returns `id`
overlayShown(o, text, priority, ttlMs, id) ==
    [o EXCEPT !.overlay = <<overlayPayload(text, priority, ttlMs)>>,
              !.timeout = IF ttlMs = << >> THEN << >> ELSE id,
              !.armed = IF ttlMs = << >> THEN @ ELSE @ \cup {id}]

\* setOverlay
setOverlay(o, text, priority, ttlSeconds, id) ==
    overlayShown(timeoutDropped(o), text, priority, ttlMsOf(ttlSeconds), id)

\* the overlay of server.ts after the call is o
overlayBecomes(o) ==
    /\ overlay' = o.overlay
    /\ overlayTimeout' = o.timeout
    /\ overlayArmed' = o.armed

\* the timeout of setOverlay runs: clearOverlay
OverlayExpires(id) ==
    /\ Quiescent
    /\ id \in overlayArmed
    /\ overlayBecomes(clearOverlay([overlayState EXCEPT !.armed = @ \ {id}]))
    /\ UNCHANGED <<assistantVars, previousResponseId, panel, speechVars, requireVoice,
                   completedSteps, timers, timerVars, tasks, now, historyVars, recipeState,
                   browserVars>>

\* POST /api/session/reset: timers.clearAllTimers, state.reset,
\* assistant.resetSession, the speech fields, clearPanel
PostSessionReset ==
    /\ Quiescent
    /\ timersBecome(clearAllTimers(timerManager))
    /\ completedSteps' = << >>
    /\ queue' = 0
    /\ currentDish' = ""
    /\ currentStep' = NULL
    /\ pendingNextStep' = NULL
    /\ latestFrameAssessment' = << >>
    /\ frameAllowsStepAdvance' = TRUE
    /\ visionHistory' = << >>
    /\ completedStepKeys' = {}
    /\ lastRoutineSpeakAtMs' = 0
    /\ waitingForUserAnswer' = FALSE
    /\ lastQuestionAtMs' = 0
    /\ lastQuestionText' = ""
    /\ lastSpokenAtMs' = 0
    /\ lastSpokenTextKey' = ""
    /\ activeDishKey' = ""
    /\ recipeStoredForSession' = FALSE
    /\ completionConfirmedForSession' = FALSE
    /\ panel' = << >>
    /\ advancedSinceFrame' = FALSE
    /\ sessionConfirmed' = FALSE
    /\ sessionSaves' = 0
    /\ UNCHANGED <<requireVoice, tasks, now, startOrder, lastGate, lastSpeak, catalog>>
    /\ previousResponseId' = << >>
    /\ overlayBecomes(clearOverlay(overlayState))
    /\ UNCHANGED browserVars

\* time passes while the event loop is idle
Tick(maxTicks) ==
    /\ UNCHANGED recipeState
    /\ Quiescent
    /\ now < StartMs + maxTicks * TickMs
    /\ now < StartMs + ClockTicks * TickMs
    /\ now' = now + TickMs
    /\ UNCHANGED <<assistantVars, panel, speechVars, requireVoice, completedSteps,
                   timers, tasks, historyVars>>
    /\ UNCHANGED <<previousResponseId, timerVars, overlayVars, browserVars>>

(***************************************************************************)
(* The steps of a queued task (assistant-browser.ts).                      *)
(***************************************************************************)
\* the task begins: the synchronous part of the callback given to enqueue, up
\* to its first awaited call
StartTask(t) ==
    /\ UNCHANGED recipeState
    /\ Startable(t)
    /\ LET tk == tasks[t]
           reaction == IF tk.pred = 0 THEN "run" ELSE chainReaction(tasks[tk.pred].pc)
       IN  IF reaction # "run"
           THEN /\ tasks' = Fail(t, tasks[tk.pred].error)
                /\ UNCHANGED <<assistantVars, historyVars>>
           ELSE
           /\ startOrder' = Append(startOrder, t)
           /\ UNCHANGED <<queue, lastGate, lastSpeak>>
           /\ IF tk.kind = "start"
              THEN \* initializeWithRecipeIdea
                   /\ currentDish' = tk.text
                   /\ currentStep' = NULL
                   /\ pendingNextStep' = NULL
                   /\ latestFrameAssessment' = << >>
                   /\ frameAllowsStepAdvance' = TRUE
                   /\ visionHistory' = << >>
                   /\ completedStepKeys' = {}
                   /\ lastRoutineSpeakAtMs' = 0
                   /\ advancedSinceFrame' = FALSE
                   /\ tasks' = [tasks EXCEPT ![t].pc = "model"]
              ELSE /\ UNCHANGED <<currentDish, currentStep, pendingNextStep,
                                  latestFrameAssessment, frameAllowsStepAdvance,
                                  visionHistory, completedStepKeys, lastRoutineSpeakAtMs,
                                  advancedSinceFrame>>
                   /\ IF tk.kind = "frame"
                      THEN \* processFrame, analyzeFrame up to the vision call
                           tasks' = [tasks EXCEPT ![t].pc = "vision",
                                                  ![t].seenStep = currentStep]
                      ELSE \* handleUserMessage, handleTimerFired
                           tasks' = [tasks EXCEPT ![t].pc = "model"]
    /\ UNCHANGED <<panel, speechVars, requireVoice, completedSteps, timers, now>>
    /\ UNCHANGED <<previousResponseId, timerVars, overlayVars, browserVars>>

\* the push of analyzeFrame without the slice
pushVisionEntryUnbounded(history, entry) == Append(history, entry)

\* this.visionHistory.push(entry) and the slice(-MAX_VISION_HISTORY) after it
pushVisionEntry(history, entry) ==
    IF Len(history) + 1 > MAX_VISION_HISTORY
    THEN SubSeq(Append(history, entry), Len(history) + 2 - MAX_VISION_HISTORY,
                Len(history) + 1)
    ELSE Append(history, entry)

\* coerceStepStatus that takes any text for a status
coerceStepStatusOfAnyText(value, fallback) ==
    IF value.type = "string" THEN value.str ELSE fallback

coerceStepStatus(value, fallback) ==
    IF value.type = "string" /\ value.str \in StepStatuses THEN value.str ELSE fallback

\* parseTimestampMs; the text is one of a frame
parseTimestampMs(isoTimestamp) ==
    IF timestampOf[isoTimestamp] = NaN THEN now ELSE timestampOf[isoTimestamp]

\* the flag that keeps the leave of an earlier frame
allowsStepAdvanceOnceAllowed(step, stepStatus) ==
    frameAllowsStepAdvance \/ step = NULL \/ stepStatus = "complete"

\* processFrame: !this.currentStep || assessment.stepStatus === "complete"
allowsStepAdvance(step, stepStatus) == step = NULL \/ stepStatus = "complete"

\* the vision call returns (or throws): the rest of analyzeFrame, then
\* processFrame up to the model call
VisionReturns(t, out) ==
    /\ UNCHANGED recipeState
    /\ t \in TaskIds
    /\ tasks[t].pc = "vision"
    /\ LET defaultStatus == IF currentStep # NULL THEN "unclear" ELSE "not_started"
           stepStatus == coerceStepStatus(stepStatusFieldOf[out], defaultStatus)
           entry == [takenAtMs |-> parseTimestampMs(tasks[t].text),
                     stepStatus |-> stepStatus]
       IN  /\ visionHistory' = pushVisionEntry(visionHistory, entry)
           /\ latestFrameAssessment' =
                 <<[stepStatus |-> stepStatus, seenStep |-> tasks[t].seenStep]>>
           /\ frameAllowsStepAdvance' = allowsStepAdvance(currentStep, stepStatus)
    /\ advancedSinceFrame' = FALSE
    /\ tasks' = [tasks EXCEPT ![t].pc = "model", ![t].seenStep = NULL]
    /\ UNCHANGED <<queue, currentDish, currentStep, pendingNextStep, completedStepKeys,
                   lastRoutineSpeakAtMs, panel, speechVars, requireVoice, completedSteps,
                   timers, now, startOrder, lastGate, lastSpeak>>
    /\ UNCHANGED <<previousResponseId, timerVars, overlayVars, browserVars>>

\* a model call returns a turn with n function calls: the id of the response
\* is stored (sendTextTurn, processFrame and the end of a pass of the loop of
\* resolveResponse), then one pass of the loop up to the first
\* executeFunctionCall; maxChain bounds the rounds the model asks for
ModelReturns(t, n, maxChain) ==
    /\ t \in TaskIds
    /\ tasks[t].pc = "model"
    /\ n > 0 => tasks[t].step < maxChain
    /\ LET tk == tasks[t]
       IN  IF tk.step >= MAX_TOOL_ROUNDS
           THEN \* the loop is left with the response of this turn in `response`
                /\ tasks' = [Fail(t, "Tool-call loop exceeded safety depth.")
                                EXCEPT ![t].nCalls = n]
                /\ UNCHANGED <<waitingForUserAnswer, lastQuestionText, activeDishKey,
                               recipeStoredForSession, completionConfirmedForSession>>
           ELSE IF n = 0
           THEN /\ tasks' = [tasks EXCEPT ![t].pc = "done", ![t].nCalls = 0, ![t].idx = 0,
                                          ![t].toolResults = << >>]
                /\ IF tk.kind = "start"
                   THEN \* POST /api/session/start after its await
                        /\ activeDishKey' = dishKeyOf[tk.text]
                        /\ recipeStoredForSession' = FALSE
                        /\ completionConfirmedForSession' = FALSE
                        /\ waitingForUserAnswer' = FALSE
                        /\ lastQuestionText' = ""
                   ELSE UNCHANGED <<waitingForUserAnswer, lastQuestionText, activeDishKey,
                                    recipeStoredForSession, completionConfirmedForSession>>
           ELSE /\ tasks' = [tasks EXCEPT ![t].pc = "exec", ![t].nCalls = n, ![t].idx = 0,
                                          ![t].toolResults = << >>]
                /\ UNCHANGED <<waitingForUserAnswer, lastQuestionText, activeDishKey,
                               recipeStoredForSession, completionConfirmedForSession>>
    /\ UNCHANGED <<assistantVars, panel, lastSpokenTextKey, lastSpokenAtMs, lastQuestionAtMs,
                   requireVoice, completedSteps, timers, now, historyVars, catalog,
                   saveHistory>>
    /\ previousResponseId' = <<t, tasks[t].step>>
    /\ UNCHANGED <<timerVars, overlayVars, browserVars>>

\* a model call throws
ModelFails(t) ==
    /\ UNCHANGED recipeState
    /\ t \in TaskIds
    /\ tasks[t].pc = "model"
    /\ tasks' = Fail(t, "model call failed")
    /\ UNCHANGED <<assistantVars, panel, speechVars, requireVoice, completedSteps, timers,
                   now, historyVars>>
    /\ UNCHANGED <<previousResponseId, timerVars, overlayVars, browserVars>>

(***************************************************************************)
(* executeFunctionCall, one action per tool; each runs in a task that is   *)
(* executing the function calls of a model turn.                           *)
(***************************************************************************)
Executing(t) ==
    /\ t \in TaskIds
    /\ tasks[t].pc = "exec"

\* `message` is neither a question nor urgent
isRoutine(message) == ~questionOf[message] /\ ~urgentOf[message]

\* case "speak", up to the synthesis awaited inside outputs.speak
Speak(t, message) ==
    /\ UNCHANGED recipeState
    /\ Executing(t)
    /\ IF message = NULL
       THEN \* readStringArg throws
            /\ tasks' = Fail(t, "Missing string argument: message")
            /\ UNCHANGED <<lastRoutineSpeakAtMs, lastSpeak>>
       ELSE LET blockedReason == getBlockedSpeakReason(message)
                gate == speakGate(message)
            IN  IF blockedReason # ""
                THEN /\ tasks' = Push(t, [ok |-> TRUE, suppressed |-> TRUE,
                                          reason |-> blockedReason])
                     /\ lastSpeak' = [text |-> message, outcome |-> blockedReason]
                     /\ UNCHANGED lastRoutineSpeakAtMs
                ELSE IF gate # "voice"
                THEN \* outputs.speak returns without voicing
                     /\ lastRoutineSpeakAtMs' =
                            IF isRoutine(message) THEN now ELSE lastRoutineSpeakAtMs
                     /\ tasks' = Push(t, [ok |-> TRUE])
                     /\ lastSpeak' = [text |-> message, outcome |-> gate]
                ELSE \* await tts.synthesize(text)
                     /\ tasks' = [tasks EXCEPT ![t].pc = "tts",
                                    ![t].speech = <<[text |-> message,
                                                     textKey |-> textKeyOf[message],
                                                     now |-> now,
                                                     isQuestion |-> questionOf[message]]>>]
                     /\ lastSpeak' = [text |-> message, outcome |-> "synthesis"]
                     /\ UNCHANGED lastRoutineSpeakAtMs
    /\ UNCHANGED <<queue, currentDish, currentStep, pendingNextStep, latestFrameAssessment,
                   frameAllowsStepAdvance, visionHistory, completedStepKeys, panel,
                   speechVars, requireVoice, completedSteps, timers, now, startOrder,
                   advancedSinceFrame, lastGate>>
    /\ UNCHANGED <<previousResponseId, timerVars, overlayVars, browserVars>>

\* recordSpoken that takes every utterance for a question
recordSpokenAsQuestion(sp) ==
    /\ lastSpokenTextKey' = sp.textKey
    /\ lastSpokenAtMs' = sp.now
    /\ waitingForUserAnswer' = TRUE
    /\ lastQuestionAtMs' = sp.now
    /\ lastQuestionText' = sp.text

\* outputs.speak after the synthesis and the broadcast: the utterance is
\* recorded as the one spoken last and, a question, as the one asked last
recordSpoken(sp) ==
    /\ lastSpokenTextKey' = sp.textKey
    /\ lastSpokenAtMs' = sp.now
    /\ waitingForUserAnswer' = IF sp.isQuestion THEN TRUE ELSE waitingForUserAnswer
    /\ lastQuestionAtMs' = IF sp.isQuestion THEN sp.now ELSE lastQuestionAtMs
    /\ lastQuestionText' = IF sp.isQuestion THEN sp.text ELSE lastQuestionText

\* the synthesis returns or throws: the rest of outputs.speak and of case "speak"
TtsReturns(t, ok) ==
    /\ UNCHANGED recipeState
    /\ t \in TaskIds
    /\ tasks[t].pc = "tts"
    /\ LET sp == tasks[t].speech[1]
       IN  IF ok
           THEN /\ recordSpoken(sp)
                /\ lastRoutineSpeakAtMs' = IF isRoutine(sp.text) THEN now ELSE lastRoutineSpeakAtMs
                /\ tasks' = Push(t, [ok |-> TRUE])
           ELSE IF requireVoice
           THEN /\ tasks' = Fail(t, "Voice output failed")
                /\ UNCHANGED <<speechVars, lastRoutineSpeakAtMs>>
           ELSE /\ lastRoutineSpeakAtMs' = IF isRoutine(sp.text) THEN now ELSE lastRoutineSpeakAtMs
                /\ tasks' = Push(t, [ok |-> TRUE])
                /\ UNCHANGED speechVars
    /\ UNCHANGED <<queue, currentDish, currentStep, pendingNextStep, latestFrameAssessment,
                   frameAllowsStepAdvance, visionHistory, completedStepKeys, panel,
                   requireVoice, completedSteps, timers, now, historyVars>>
    /\ UNCHANGED <<previousResponseId, timerVars, overlayVars, browserVars>>

\* case "stay_silent"
StaySilent(t, reason) ==
    /\ UNCHANGED recipeState
    /\ Executing(t)
    /\ tasks' = IF reason = NULL
                THEN Fail(t, "Missing string argument: reason")
                ELSE Push(t, [ok |-> TRUE, silent |-> TRUE])
    /\ UNCHANGED <<assistantVars, panel, speechVars, requireVoice, completedSteps, timers,
                   now, historyVars>>
    /\ UNCHANGED <<previousResponseId, timerVars, overlayVars, browserVars>>

\* the function call the task t is executing: its round and its place in it
callAt(t) == <<t, tasks[t].step, tasks[t].idx>>

\* case "set_timer": readStringArg throws for a blank label; TimerManager.setTimer
\* replaces the timer of that label
SetTimer(t, label) ==
    /\ UNCHANGED recipeState
    /\ Executing(t)
    /\ IF trim(label) = ""
       THEN /\ tasks' = Fail(t, "Missing string argument: label")
            /\ UNCHANGED <<timers, timerVars>>
       ELSE /\ timersBecome(setTimer(timerManager, trim(label), callAt(t)))
            /\ tasks' = Push(t, [ok |-> TRUE, timer |-> trim(label)])
    /\ UNCHANGED <<assistantVars, panel, speechVars, requireVoice, completedSteps, now,
                   historyVars>>
    /\ UNCHANGED <<previousResponseId, overlayVars, browserVars>>

\* case "cancel_timer"
CancelTimer(t, label) ==
    /\ UNCHANGED recipeState
    /\ Executing(t)
    /\ IF trim(label) = ""
       THEN /\ tasks' = Fail(t, "Missing string argument: label")
            /\ UNCHANGED <<timers, timerVars>>
       ELSE /\ timersBecome(cancelTimer(timerManager, trim(label)))
            /\ tasks' = Push(t, [ok |-> cancelTimerReturns(timerManager, trim(label))])
    /\ UNCHANGED <<assistantVars, panel, speechVars, requireVoice, completedSteps, now,
                   historyVars>>
    /\ UNCHANGED <<previousResponseId, overlayVars, browserVars>>

wasAdvanced(result) == "advanced" \in DOMAIN result /\ result.advanced

\* the assignments of case "set_panel" once the gate has returned g
panelGated(t, next_step, g) ==
    /\ currentDish' = g.currentDish
    /\ currentStep' = g.currentStep
    /\ pendingNextStep' = g.pendingNextStep
    /\ completedStepKeys' = g.completedStepKeys
    /\ completedSteps' = g.completedSteps
    /\ panel' = g.panel
    /\ tasks' = Push(t, g.result)
    /\ lastGate' = [called |-> TRUE,
                    step |-> currentStep,
                    allowed |-> frameAllowsStepAdvance,
                    assessment |-> latestFrameAssessment,
                    again |-> advancedSinceFrame,
                    requested |-> next_step,
                    after |-> g.currentStep,
                    result |-> g.result]
    /\ advancedSinceFrame' = (advancedSinceFrame \/ wasAdvanced(g.result))

\* case "set_panel"
SetPanel(t, cooking, next_step) ==
    /\ UNCHANGED recipeState
    /\ Executing(t)
    /\ IF next_step = NULL
       THEN /\ tasks' = Fail(t, "Missing string argument: next_step")
            /\ UNCHANGED <<currentDish, currentStep, pendingNextStep, completedStepKeys,
                           completedSteps, panel, lastGate, advancedSinceFrame>>
       ELSE panelGated(t, next_step, applyPanelStepGate(cooking, next_step))
    /\ UNCHANGED <<queue, latestFrameAssessment, frameAllowsStepAdvance, visionHistory,
                   lastRoutineSpeakAtMs, speechVars, requireVoice, timers, now, startOrder,
                   lastSpeak>>
    /\ UNCHANGED <<previousResponseId, timerVars, overlayVars, browserVars>>

\* case "clear_panel" that unlocks the step and keeps the pending one
ClearPanelKeepingPending(t) ==
    /\ UNCHANGED recipeState
    /\ Executing(t)
    /\ panel' = << >>
    /\ currentStep' = NULL
    /\ tasks' = Push(t, [ok |-> TRUE])
    /\ UNCHANGED <<queue, currentDish, pendingNextStep, latestFrameAssessment,
                   frameAllowsStepAdvance, visionHistory, completedStepKeys,
                   lastRoutineSpeakAtMs, speechVars, requireVoice, completedSteps, timers,
                   now, historyVars>>
    /\ UNCHANGED <<previousResponseId, timerVars, overlayVars, browserVars>>

\* case "set_overlay": readStringArg, readPriorityArg and readOptionalNumberArg
\* (ttlSeconds is << >> for null) throw for what they do not accept
SetOverlay(t, text, priority, ttlSeconds) ==
    /\ UNCHANGED recipeState
    /\ Executing(t)
    /\ IF text = NULL \/ trim(text) = ""
       THEN /\ tasks' = Fail(t, "Missing string argument: text")
            /\ UNCHANGED overlayVars
       ELSE IF priority \notin {"normal", "urgent"}
       THEN /\ tasks' = Fail(t, "Invalid priority argument: priority")
            /\ UNCHANGED overlayVars
       ELSE /\ overlayBecomes(setOverlay(overlayState, trim(text), priority, ttlSeconds,
                                         callAt(t)))
            /\ tasks' = Push(t, [ok |-> TRUE])
    /\ UNCHANGED <<assistantVars, panel, speechVars, requireVoice, completedSteps, timers,
                   now, historyVars>>
    /\ UNCHANGED <<previousResponseId, timerVars, browserVars>>

\* case "clear_overlay"
ClearOverlay(t) ==
    /\ UNCHANGED recipeState
    /\ Executing(t)
    /\ overlayBecomes(clearOverlay(overlayState))
    /\ tasks' = Push(t, [ok |-> TRUE])
    /\ UNCHANGED <<assistantVars, panel, speechVars, requireVoice, completedSteps, timers,
                   now, historyVars>>
    /\ UNCHANGED <<previousResponseId, timerVars, browserVars>>

\* case "clear_panel"
ClearPanel(t) ==
    /\ UNCHANGED recipeState
    /\ Executing(t)
    /\ panel' = << >>
    /\ currentStep' = NULL
    /\ pendingNextStep' = NULL
    /\ tasks' = Push(t, [ok |-> TRUE])
    /\ UNCHANGED <<queue, currentDish, latestFrameAssessment, frameAllowsStepAdvance,
                   visionHistory, completedStepKeys, lastRoutineSpeakAtMs, speechVars,
                   requireVoice, completedSteps, timers, now, historyVars>>
    /\ UNCHANGED <<previousResponseId, timerVars, overlayVars, browserVars>>

\* completeRecipe of server.ts up to its await: the error it returns, "saved"
\* when a save was already made, "" when the recipe is to be saved
completeRecipeRefusal(dish, recipe) ==
    IF trim(dish) = "" \/ trim(recipe) = ""
    THEN [ok |-> FALSE, saved |-> FALSE, error |-> "Both dish and recipe are required."]
    ELSE IF dishKeyOf[dish] = ""
    THEN [ok |-> FALSE, saved |-> FALSE, error |-> "Could not normalize dish name."]
    ELSE IF activeDishKey = ""
    THEN [ok |-> FALSE, saved |-> FALSE, error |-> "No active cooking session."]
    ELSE IF dishKeyOf[dish] # activeDishKey
    THEN [ok |-> FALSE, saved |-> FALSE,
          error |-> "Dish \"" \o trim(dish) \o "\" does not match active session dish."]
    ELSE IF recipeStoredForSession
    THEN [ok |-> TRUE, saved |-> FALSE, reason |-> "already_saved_for_session"]
    ELSE IF ~completionConfirmedForSession
    THEN [ok |-> FALSE, saved |-> FALSE,
          error |-> "Recipe can only be saved after user confirms the dish is finished."]
    ELSE [ok |-> TRUE]

\* case "complete_recipe" and completeRecipe up to the first await of
\* saveCompletedRecipe (readFile)
CompleteRecipe(t, dish, recipe) ==
    /\ Executing(t)
    /\ tasks' =
          IF dish = NULL THEN Fail(t, "Missing string argument: dish")
          ELSE IF recipe = NULL THEN Fail(t, "Missing string argument: recipe")
          ELSE IF DOMAIN completeRecipeRefusal(dish, recipe) # {"ok"}
          THEN Push(t, completeRecipeRefusal(dish, recipe))
          ELSE [tasks EXCEPT ![t].pc = "readFile",
                             ![t].saving = <<[dish |-> trim(dish), recipe |-> trim(recipe)]>>]
    /\ UNCHANGED <<assistantVars, panel, speechVars, requireVoice, completedSteps, timers,
                   now, historyVars, recipeState>>
    /\ UNCHANGED <<previousResponseId, timerVars, overlayVars, browserVars>>

\* the entry saveCompletedRecipe builds from the file it has read
savedEntry(file, dish, recipe) ==
    [dish |-> dish,
     dishKey |-> dishKeyOf[dish],
     recipe |-> recipe,
     completedAt |-> now,
     timesCooked |-> IF findIndexOfKey(file, dishKeyOf[dish]) > 0
                     THEN file[findIndexOfKey(file, dishKeyOf[dish])].timesCooked + 1
                     ELSE 1]

\* saveCompletedRecipe: readFile returns, the entry is built and put into the
\* recipes read, and writeFile is awaited
RecipeFileRead(t) ==
    /\ t \in TaskIds
    /\ tasks[t].pc = "readFile"
    /\ tasks' = [tasks EXCEPT
                    ![t].pc = "writeFile",
                    ![t].saving = <<[saved |-> savedEntry(catalog, tasks[t].saving[1].dish,
                                                          tasks[t].saving[1].recipe),
                                     file |-> catalog]>>]
    /\ UNCHANGED <<assistantVars, panel, speechVars, requireVoice, completedSteps, timers,
                   now, historyVars, recipeState>>
    /\ UNCHANGED <<previousResponseId, timerVars, overlayVars, browserVars>>

\* the recipes `file` with the entry `saved` in the place of the entry of its
\* key, or pushed when there is none, and sorted
withRecipe(file, saved) ==
    sortByDish(IF findIndexOfKey(file, saved.dishKey) > 0
               THEN [file EXCEPT ![findIndexOfKey(file, saved.dishKey)] = saved]
               ELSE Append(file, saved))

\* writeFile returns: the file is written, then the rest of completeRecipe
RecipeFileWritten(t) ==
    /\ t \in TaskIds
    /\ tasks[t].pc = "writeFile"
    /\ catalog' = withRecipe(tasks[t].saving[1].file, tasks[t].saving[1].saved)
    /\ recipeStoredForSession' = TRUE
    /\ completionConfirmedForSession' = FALSE
    /\ sessionSaves' = sessionSaves + 1
    /\ tasks' = Push(t, [ok |-> TRUE, saved |-> TRUE, recipe |-> tasks[t].saving[1].saved])
    /\ UNCHANGED <<assistantVars, panel, speechVars, requireVoice, completedSteps, timers,
                   now, historyVars, activeDishKey, sessionConfirmed>>
    /\ UNCHANGED <<previousResponseId, timerVars, overlayVars, browserVars>>

\* case "lookup_recipe": lookupRecipe trims the dish and asks the store, which
\* answers at once when the key is empty and reads the recipe file otherwise
LookupRecipe(t, dish) ==
    /\ Executing(t)
    /\ trim(dish) # ""
    /\ tasks' = IF normalizeDishKey(trim(dish)) = ""
                THEN Push(t, lookupResult(trim(dish), lookupByDish(trim(dish), << >>)))
                ELSE [tasks EXCEPT ![t].pc = "lookupFile",
                                   ![t].saving = <<[dish |-> trim(dish)]>>]
    /\ UNCHANGED <<assistantVars, panel, speechVars, requireVoice, completedSteps, timers,
                   now, historyVars, recipeState>>
    /\ UNCHANGED <<previousResponseId, timerVars, overlayVars, browserVars>>

\* readFile returns to lookupByDish: the entry is looked up in the recipes
\* read and the answer becomes the result of the call
LookupFileRead(t) ==
    /\ t \in TaskIds
    /\ tasks[t].pc = "lookupFile"
    /\ tasks' = Push(t, lookupResult(tasks[t].saving[1].dish,
                                     lookupByDish(tasks[t].saving[1].dish, catalog)))
    /\ UNCHANGED <<assistantVars, panel, speechVars, requireVoice, completedSteps, timers,
                   now, historyVars, recipeState>>
    /\ UNCHANGED <<previousResponseId, timerVars, overlayVars, browserVars>>

\* default: a tool name the switch does not know
UnknownTool(t, name) ==
    /\ UNCHANGED recipeState
    /\ Executing(t)
    /\ tasks' = Push(t, [ok |-> FALSE, error |-> "Unknown tool: " \o name])
    /\ UNCHANGED <<assistantVars, panel, speechVars, requireVoice, completedSteps, timers,
                   now, historyVars>>
    /\ UNCHANGED <<previousResponseId, timerVars, overlayVars, browserVars>>

(***************************************************************************)
(* The capture loop of the browser (web/app.js).  The functions work on    *)
(* the record of the browser's variables.                                  *)
(***************************************************************************)
browserNow ==
    [sessionStarted |-> sessionStarted, captureLoopToken |-> captureLoopToken,
     captureTimer |-> captureTimer, frameInFlight |-> frameInFlight,
     timeouts |-> timeouts, frameRequests |-> frameRequests]

\* the sequence seq without its element i
without(seq, i) == SubSeq(seq, 1, i - 1) \o SubSeq(seq, i + 1, Len(seq))

\* clearTimeout(handle): the timeout of that loop token, if it is still set
clearTimeout(set, handle) ==
    IF \E i \in 1..Len(set) : set[i] = handle
    THEN without(set, CHOOSE i \in 1..Len(set) : set[i] = handle)
    ELSE set

\* stopCaptureLoop
stopCaptureLoop(b) ==
    [b EXCEPT !.captureLoopToken = @ + 1,
              !.timeouts = IF b.captureTimer # 0 THEN clearTimeout(@, b.captureTimer) ELSE @,
              !.captureTimer = 0]

\* scheduleNextCapture
scheduleNextCapture(b, loopToken) ==
    IF ~b.sessionStarted \/ loopToken # b.captureLoopToken
    THEN b
    ELSE [b EXCEPT !.captureTimer = loopToken, !.timeouts = Append(@, loopToken)]

\* captureTick up to its await; ready: the video has a size; prepared: the
\* canvas gave a context, so that the frame is posted
captureTick(b, loopToken, ready, prepared) ==
    IF ~b.sessionStarted \/ loopToken # b.captureLoopToken THEN b
    ELSE IF b.frameInFlight THEN scheduleNextCapture(b, loopToken)
    ELSE IF ~ready THEN scheduleNextCapture(b, loopToken)
    ELSE IF prepared
         THEN [b EXCEPT !.frameInFlight = TRUE, !.frameRequests = Append(@, loopToken)]
    ELSE scheduleNextCapture([b EXCEPT !.frameInFlight = FALSE], loopToken)

\* startCaptureLoop
startCaptureLoop(b, ready, prepared) ==
    captureTick(stopCaptureLoop(b), stopCaptureLoop(b).captureLoopToken, ready, prepared)

\* the browser's variables become those of the record b
browserBecomes(b) ==
    /\ sessionStarted' = b.sessionStarted
    /\ captureLoopToken' = b.captureLoopToken
    /\ captureTimer' = b.captureTimer
    /\ frameInFlight' = b.frameInFlight
    /\ timeouts' = b.timeouts
    /\ frameRequests' = b.frameRequests

serverVars ==
    <<assistantVars, previousResponseId, panel, speechVars, requireVoice, completedSteps,
      timers, timerVars, tasks, now, historyVars, recipeState, overlayVars>>

\* processTranscript: a transcript is heard; "reset" posts /api/session/reset,
\* a dish posts /api/session/start when no session is started (a message of
\* a started session changes nothing in the browser)
Transcript(kind, maxTranscripts, maxLoops) ==
    /\ Len(transcripts) < maxTranscripts
    /\ captureLoopToken + Len(transcripts) < maxLoops
    /\ kind = "start" => ~sessionStarted
    /\ transcripts' = Append(transcripts, kind)
    /\ UNCHANGED <<sessionStarted, captureLoopToken, captureTimer, frameInFlight, timeouts,
                   frameRequests>>
    /\ UNCHANGED <<serverVars, playerVars>>

\* the response of the request of the transcript i arrives; ok: postJson
\* does not throw
TranscriptAnswered(i, ok, ready, prepared) ==
    /\ i \in 1..Len(transcripts)
    /\ transcripts' = without(transcripts, i)
    /\ browserBecomes(
          IF ~ok THEN browserNow
          ELSE IF transcripts[i] = "reset"
               THEN stopCaptureLoop([browserNow EXCEPT !.sessionStarted = FALSE])
          ELSE startCaptureLoop([browserNow EXCEPT !.sessionStarted = TRUE], ready, prepared))
    /\ UNCHANGED <<serverVars, playerVars>>

\* the timeout i of scheduleNextCapture fires
CaptureTimerFires(i, ready, prepared) ==
    /\ i \in 1..Len(timeouts)
    /\ browserBecomes(captureTick([browserNow EXCEPT !.captureTimer = 0,
                                                      !.timeouts = without(@, i)],
                                  timeouts[i], ready, prepared))
    /\ UNCHANGED transcripts
    /\ UNCHANGED <<serverVars, playerVars>>

\* the frame request i returns or fails: the finally of captureTick
FrameSettles(i) ==
    /\ i \in 1..Len(frameRequests)
    /\ browserBecomes(scheduleNextCapture([browserNow EXCEPT !.frameInFlight = FALSE,
                                                             !.frameRequests = without(@, i)],
                                          frameRequests[i]))
    /\ UNCHANGED transcripts
    /\ UNCHANGED <<serverVars, playerVars>>

\* the speech player of the page and what it did so far
player ==
    [speechQueue |-> speechQueue, drainingSpeech |-> drainingSpeech, audio |-> audio,
     heard |-> heard]

\* drainSpeechQueue at the head of its loop: the next event is taken and
\* audio.play() awaited, or the loop ends and `finally` runs
drainSpeechQueue(p) ==
    IF p.speechQueue = << >>
    THEN [p EXCEPT !.drainingSpeech = FALSE, !.audio = << >>]
    ELSE [p EXCEPT !.audio = <<[event |-> Head(p.speechQueue), pc |-> "play"]>>,
                   !.speechQueue = Tail(@)]

\* drainSpeechQueue when an awaited promise rejects: catch and finally
drainCaught(p) ==
    [p EXCEPT !.heard = Append(@, [event |-> p.audio[1].event, outcome |-> "failed"]),
              !.audio = << >>,
              !.drainingSpeech = FALSE]

\* enqueueSpeech
enqueueSpeech(p, event) ==
    IF p.drainingSpeech
    THEN [p EXCEPT !.speechQueue = Append(@, event)]
    ELSE drainSpeechQueue([p EXCEPT !.speechQueue = Append(@, event),
                                    !.drainingSpeech = TRUE])

\* the player of the page becomes p
playerBecomes(p) ==
    /\ speechQueue' = p.speechQueue
    /\ drainingSpeech' = p.drainingSpeech
    /\ audio' = p.audio
    /\ heard' = p.heard

captureVars ==
    <<sessionStarted, captureLoopToken, captureTimer, frameInFlight, timeouts,
      frameRequests, transcripts>>

\* the speech events the page has received
received == Len(heard) + Len(audio) + Len(speechQueue)

\* handleServerEvent case "speech": the next speech event arrives
SpeechArrives(maxEvents) ==
    /\ received < maxEvents
    /\ playerBecomes(enqueueSpeech(player, received + 1))
    /\ UNCHANGED <<serverVars, captureVars>>

\* audio.play() settles: resolved, the end of the audio is awaited; rejected,
\* the loop is left
PlayReturns(ok) ==
    /\ audio # << >>
    /\ audio[1].pc = "play"
    /\ playerBecomes(IF ok THEN [player EXCEPT !.audio[1].pc = "ended"]
                     ELSE drainCaught(player))
    /\ UNCHANGED <<serverVars, captureVars>>

\* the audio emits "ended" (the loop goes on) or "error" (the loop is left)
AudioEnds(ok) ==
    /\ audio # << >>
    /\ audio[1].pc = "ended"
    /\ playerBecomes(
          IF ok
          THEN drainSpeechQueue(
                   [player EXCEPT !.heard = Append(@, [event |-> audio[1].event,
                                                       outcome |-> "played"])])
          ELSE drainCaught(player))
    /\ UNCHANGED <<serverVars, captureVars>>

(***************************************************************************)
(* Specifications.  Each one runs the same handlers and task steps from    *)
(* the same initial state and differs in the events and the function calls *)
(* the environment and the model supply, and in how many.                  *)
(***************************************************************************)
\* the step lock: session starts, frames and resets; set_panel and clear_panel
StepTasks == 2

StepChain == 2

NextStep ==
    \/ \E r \in RecipeIdeas : PostSessionStart(r, StepTasks)
    \/ PostFrame(NULL, StepTasks)
    \/ PostSessionReset
    \/ \E t \in TaskIds : StartTask(t)
    \/ \E t \in TaskIds, out \in VisionOutputs : VisionReturns(t, out)
    \/ \E t \in TaskIds, n \in 0..1 : ModelReturns(t, n, StepChain)
    \/ \E t \in TaskIds, r \in RecipeIdeas, s \in RawSteps : SetPanel(t, r, s)
    \/ \E t \in TaskIds : ClearPanel(t)

SpecStep == InitDefault /\ [][NextStep]_vars

\* the session queue: every event; one round of one function call per task
QueueTasks == 3

QueueChain == 1

QueueMessages == {"Is the butter melted?"}

NextQueue ==
    \/ \E r \in RecipeIdeas : PostSessionStart(r, QueueTasks)
    \/ PostFrame(NULL, QueueTasks)
    \/ \E m \in UserMessages : PostUserMessage(m, QueueTasks)
    \/ \E l \in TimerLabels : TimerFires(l, QueueTasks)
    \/ PostSessionReset
    \/ \E t \in TaskIds : StartTask(t)
    \/ \E t \in TaskIds : VisionReturns(t, saw("complete"))
    \/ \E t \in TaskIds, n \in 0..1 : ModelReturns(t, n, QueueChain)
    \/ \E t \in TaskIds, m \in QueueMessages : Speak(t, m)
    \/ \E t \in TaskIds, ok \in BOOLEAN : TtsReturns(t, ok)
    \/ \E t \in TaskIds, l \in TimerLabels : SetTimer(t, l)

SpecQueue == InitDefault /\ [][NextQueue]_vars

\* the speech gate: a locked step, frames, user messages and the clock
SpeechTasks == 2

SpeechChain == 2

SpeechTicks == 2

NextSpeech ==
    \/ PostFrame(NULL, SpeechTasks)
    \/ \E m \in UserMessages : PostUserMessage(m, SpeechTasks)
    \/ Tick(SpeechTicks)
    \/ \E t \in TaskIds : StartTask(t)
    \/ \E t \in TaskIds, out \in {saw("in_progress"), saw("complete")} : VisionReturns(t, out)
    \/ \E t \in TaskIds, n \in 0..1 : ModelReturns(t, n, SpeechChain)
    \/ \E t \in TaskIds, m \in SpeechMessages : Speak(t, m)
    \/ \E t \in TaskIds, ok \in BOOLEAN : TtsReturns(t, ok)
    \/ \E t \in TaskIds, r \in RecipeIdeas : SetPanel(t, r, "Grab 2 eggs.")

SpecSpeech == Init /\ [][NextSpeech]_vars

\* the tool loop: one user message, up to LoopCalls function calls per model
\* turn, as many rounds as the model asks for
LoopTasks == 1

LoopCalls == 2

NextLoop ==
    \/ \E m \in UserMessages : PostUserMessage(m, LoopTasks)
    \/ \E t \in TaskIds : StartTask(t)
    \/ \E t \in TaskIds, n \in 0..LoopCalls : ModelReturns(t, n, MAX_TOOL_ROUNDS + 1)
    \/ \E t \in TaskIds : ModelFails(t)
    \/ \E t \in TaskIds, m \in {"Grab the eggs.", NULL} : Speak(t, m)
    \/ \E t \in TaskIds, ok \in BOOLEAN : TtsReturns(t, ok)
    \/ \E t \in TaskIds, r \in {"waiting", NULL} : StaySilent(t, r)
    \/ \E t \in TaskIds, l \in TimerLabels : SetTimer(t, l)
    \/ \E t \in TaskIds, r \in RecipeIdeas, s \in {"Grab 2 eggs.", NULL} : SetPanel(t, r, s)
    \/ \E t \in TaskIds : ClearPanel(t)
    \/ \E t \in TaskIds : UnknownTool(t, "open_oven")

SpecLoop == Init /\ [][NextLoop]_vars

\* the gate alone: a session start and frames; one set_panel call per model turn
GateTasks == 2

GateChain == 1

NextGate ==
    \/ \E r \in RecipeIdeas : PostSessionStart(r, GateTasks)
    \/ PostFrame(NULL, GateTasks)
    \/ \E t \in TaskIds : StartTask(t)
    \/ \E t \in TaskIds, out \in {saw("in_progress"), saw("complete")} : VisionReturns(t, out)
    \/ \E t \in TaskIds, n \in 0..1 : ModelReturns(t, n, GateChain)
    \/ \E t \in TaskIds, r \in RecipeIdeas, s \in PanelSteps : SetPanel(t, r, s)

SpecGate == InitDefault /\ [][NextGate]_vars

\* failing tasks: user messages and resets; a task fails by a failing model
\* call, by a function call that throws, or by exceeding the tool rounds
FailureTasks == 2

NextFailure ==
    \/ \E m \in UserMessages : PostUserMessage(m, FailureTasks)
    \/ PostSessionReset
    \/ \E t \in TaskIds : StartTask(t)
    \/ \E t \in TaskIds, n \in 0..1 : ModelReturns(t, n, MAX_TOOL_ROUNDS + 1)
    \/ \E t \in TaskIds : ModelFails(t)
    \/ \E t \in TaskIds, r \in {"waiting", NULL} : StaySilent(t, r)

SpecFailure == InitDefault /\ [][NextFailure]_vars

\* recipes: session starts, user messages and resets; complete_recipe
RecipeTasks == 3

RecipeChain == 1

NextRecipe ==
    \/ \E d \in SessionDishes : PostSessionStart(d, RecipeTasks)
    \/ \E m \in RecipeMessages : PostUserMessage(m, RecipeTasks)
    \/ PostSessionReset
    \/ \E t \in TaskIds : StartTask(t)
    \/ \E t \in TaskIds, n \in 0..1 : ModelReturns(t, n, RecipeChain)
    \/ \E t \in TaskIds, d \in DishArgs : CompleteRecipe(t, d, RecipeText)
    \/ \E t \in TaskIds : RecipeFileRead(t)
    \/ \E t \in TaskIds : RecipeFileWritten(t)

SpecRecipe == InitDefault /\ [][NextRecipe]_vars

\* voicing: frames, user messages, resets and the clock; speak and set_panel
VoiceTasks == 2

VoiceChain == 1

VoiceTicks == 1

VoiceMessages == {"Grab the eggs.", "Is the butter melted?", "Which pan is on fire?"}

NextVoice ==
    \/ PostFrame(NULL, VoiceTasks)
    \/ \E m \in UserMessages : PostUserMessage(m, VoiceTasks)
    \/ PostSessionReset
    \/ Tick(VoiceTicks)
    \/ \E t \in TaskIds : StartTask(t)
    \/ \E t \in TaskIds : VisionReturns(t, saw("in_progress"))
    \/ \E t \in TaskIds, n \in 0..1 : ModelReturns(t, n, VoiceChain)
    \/ \E t \in TaskIds, m \in VoiceMessages : Speak(t, m)
    \/ \E t \in TaskIds, ok \in BOOLEAN : TtsReturns(t, ok)
    \/ \E t \in TaskIds, r \in RecipeIdeas : SetPanel(t, r, "Grab 2 eggs.")

SpecVoice == Init /\ [][NextVoice]_vars

\* synthesis: frames; speak and set_panel
SynthesisTasks == 2

SynthesisChain == 1

NextSynthesis ==
    \/ PostFrame(NULL, SynthesisTasks)
    \/ \E t \in TaskIds : StartTask(t)
    \/ \E t \in TaskIds : VisionReturns(t, saw("in_progress"))
    \/ \E t \in TaskIds, n \in 0..1 : ModelReturns(t, n, SynthesisChain)
    \/ \E t \in TaskIds, m \in VoiceMessages \cup OffStepMessages : Speak(t, m)
    \/ \E t \in TaskIds, ok \in BOOLEAN : TtsReturns(t, ok)
    \/ \E t \in TaskIds, r \in RecipeIdeas : SetPanel(t, r, "Grab 2 eggs.")

SpecSynthesis == Init /\ [][NextSynthesis]_vars

\* the vision history: frames only, more of them than the history holds
HistoryTasks == 11

NextHistory ==
    \/ PostFrame(NULL, HistoryTasks)
    \/ \E t \in TaskIds : StartTask(t)
    \/ \E t \in TaskIds, out \in {saw("in_progress"), saw("complete")} : VisionReturns(t, out)
    \/ \E t \in TaskIds : ModelReturns(t, 0, 0)

SpecHistory == InitDefault /\ [][NextHistory]_vars

\* the lookup: user messages whose turns call lookup_recipe, and a recipe
\* file that holds recipes of earlier runs
LookupTasks == 2

LookupChain == 1

StoredDishes == {"Pasta Bolognese", "Chicken Curry", "Chicken Soup", "Thai Green Curry"}

LookupQueries ==
    {"spaghetti", " pasta bolognese", "Chicken", "chicken rice soup", "Thai red curry",
     "curry rice", "!!"}

storedEntry(dish) ==
    [dish |-> dish, dishKey |-> normalizeDishKey(dish), recipe |-> RecipeText,
     completedAt |-> StartMs - TickMs, timesCooked |-> 1]

RECURSIVE storedCatalog(_)
storedCatalog(dishes) ==
    IF dishes = {} THEN << >>
    ELSE withRecipe(storedCatalog(dishes \ {CHOOSE d \in dishes : TRUE}),
                    storedEntry(CHOOSE d \in dishes : TRUE))

\* the recipe files of earlier runs: written entry by entry by saveCompletedRecipe
StoredCatalogs == { storedCatalog(dishes) : dishes \in SUBSET StoredDishes }

InitStored == InitFrom({TRUE}, StoredCatalogs)

NextLookup ==
    \/ \E m \in UserMessages : PostUserMessage(m, LookupTasks)
    \/ \E t \in TaskIds : StartTask(t)
    \/ \E t \in TaskIds, n \in 0..1 : ModelReturns(t, n, LookupChain)
    \/ \E t \in TaskIds, d \in LookupQueries : LookupRecipe(t, d)
    \/ \E t \in TaskIds : LookupFileRead(t)

SpecLookup == InitStored /\ [][NextLookup]_vars

\* the capture loop: transcripts that start and reset the session, timeouts
\* and frame requests of the browser
CaptureTranscripts == 2

CaptureLoops == 6

NextCapture ==
    \/ \E kind \in {"start", "reset"} : Transcript(kind, CaptureTranscripts, CaptureLoops)
    \/ \E i \in 1..CaptureTranscripts, ok, ready, prepared \in BOOLEAN :
           TranscriptAnswered(i, ok, ready, prepared)
    \/ \E i \in 1..CaptureLoops, ready, prepared \in BOOLEAN :
           CaptureTimerFires(i, ready, prepared)
    \/ \E i \in 1..CaptureLoops : FrameSettles(i)

SpecCapture == InitDefault /\ [][NextCapture]_vars

\* the step texts: user messages whose turns call set_panel with texts of
\* every shape
SanitizeTasks == 2

SanitizeChain == 1

NextSanitize ==
    \/ \E m \in UserMessages : PostUserMessage(m, SanitizeTasks)
    \/ \E t \in TaskIds : StartTask(t)
    \/ \E t \in TaskIds, n \in 0..1 : ModelReturns(t, n, SanitizeChain)
    \/ \E t \in TaskIds, r \in RecipeIdeas, s \in AllSteps : SetPanel(t, r, s)

SpecSanitize == InitDefault /\ [][NextSanitize]_vars

\* reminders: frames and the clock; set_panel locks a step and speak asks for
\* messages about that step and about another, and for an urgent one
ReminderTasks == 2

ReminderChain == 2

ReminderTicks == 1

ReminderMessages == {"Grab the eggs.", "Whisk the batter.", "Stop, the pan is on fire!"}

NextReminder ==
    \/ PostFrame(NULL, ReminderTasks)
    \/ Tick(ReminderTicks)
    \/ \E t \in TaskIds : StartTask(t)
    \/ \E t \in TaskIds : VisionReturns(t, saw("in_progress"))
    \/ \E t \in TaskIds, n \in 0..1 : ModelReturns(t, n, ReminderChain)
    \/ \E t \in TaskIds, m \in ReminderMessages : Speak(t, m)
    \/ \E t \in TaskIds : TtsReturns(t, TRUE)
    \/ \E t \in TaskIds, r \in RecipeIdeas : SetPanel(t, r, "Grab 2 eggs.")

SpecReminder == InitDefault /\ [][NextReminder]_vars

\* ingestion: frames whose vision call answers in every way or throws, while
\* set_panel locks a step and clear_panel unlocks it
IngestTasks == 3

IngestChain == 1

NextIngest ==
    \/ PostFrame(NULL, IngestTasks)
    \/ \E t \in TaskIds : StartTask(t)
    \/ \E t \in TaskIds, out \in AllVisionOutputs : VisionReturns(t, out)
    \/ \E t \in TaskIds, n \in 0..1 : ModelReturns(t, n, IngestChain)
    \/ \E t \in TaskIds, r \in RecipeIdeas : SetPanel(t, r, "Grab 2 eggs.")
    \/ \E t \in TaskIds : ClearPanel(t)

SpecIngest == InitDefault /\ [][NextIngest]_vars

\* unlocking: frames judged in progress; set_panel with texts of every shape
\* and clear_panel, which unlocks the step and leaves the flag as it is
UnlockTasks == 2

UnlockChain == 2

NextUnlock ==
    \/ PostFrame(NULL, UnlockTasks)
    \/ \E t \in TaskIds : StartTask(t)
    \/ \E t \in TaskIds : VisionReturns(t, saw("in_progress"))
    \/ \E t \in TaskIds, n \in 0..1 : ModelReturns(t, n, UnlockChain)
    \/ \E t \in TaskIds, r \in RecipeIdeas, s \in AllSteps : SetPanel(t, r, s)
    \/ \E t \in TaskIds : ClearPanel(t)

SpecUnlock == InitDefault /\ [][NextUnlock]_vars

\* timestamps: frames whose body states when they were taken, or does not
StampTasks == 3

NextStamp ==
    \/ \E takenAt \in SuppliedTimestamps \cup {NULL} : PostFrame(takenAt, StampTasks)
    \/ Tick(ClockTicks)
    \/ \E t \in TaskIds : StartTask(t)
    \/ \E t \in TaskIds : VisionReturns(t, saw("in_progress"))
    \/ \E t \in TaskIds : ModelReturns(t, 0, 0)

SpecStamp == InitDefault /\ [][NextStamp]_vars

\* the pending step: session starts, frames and resets; set_panel with a
\* step, the same step in other words and another step, and clear_panel
PendingTasks == 2

PendingChain == 2

PendingSteps ==
    {"Grab 2 eggs.", "grab the eggs", "Next step: Crack the eggs into a bowl. Then whisk."}

NextPending ==
    \/ \E r \in RecipeIdeas : PostSessionStart(r, PendingTasks)
    \/ PostFrame(NULL, PendingTasks)
    \/ PostSessionReset
    \/ \E t \in TaskIds : StartTask(t)
    \/ \E t \in TaskIds, out \in {saw("in_progress"), saw("complete")} : VisionReturns(t, out)
    \/ \E t \in TaskIds, n \in 0..1 : ModelReturns(t, n, PendingChain)
    \/ \E t \in TaskIds, r \in RecipeIdeas, s \in PendingSteps : SetPanel(t, r, s)
    \/ \E t \in TaskIds : ClearPanel(t)

SpecPending == InitDefault /\ [][NextPending]_vars

\* the timers: a user message, set_timer and cancel_timer with two labels, one
\* of them with a space in front, timeouts that run, and resets between tasks
TimerTasks == 1

TimerChain == 2

TimerArgs == {" eggs", "rice"}

NextTimer ==
    \/ \E m \in UserMessages : PostUserMessage(m, TimerTasks)
    \/ \E l \in TimerArgs : TimerFires(trim(l), TimerTasks + 1)
    \/ (\A t \in TaskIds : Settled(t)) /\ PostSessionReset
    \/ \E t \in TaskIds : StartTask(t)
    \/ \E t \in TaskIds, n \in 0..1 : ModelReturns(t, n, TimerChain)
    \/ \E t \in TaskIds, l \in TimerArgs : SetTimer(t, l)
    \/ \E t \in TaskIds, l \in TimerArgs : CancelTimer(t, l)

SpecTimer == InitDefault /\ [][NextTimer]_vars

\* the overlay: a user message, set_overlay with and without a time to live,
\* clear_overlay, expiries, the clock and resets between tasks
OverlayTasks == 2

OverlayChain == 2

OverlayTicks == 1

OverlayTexts == {"Flip now", "Stir"}

OverlayPriorities == {"urgent", "loud"}

OverlayTtls == {<< >>, <<0>>, <<5>>}

NextOverlay ==
    \/ \E m \in UserMessages : PostUserMessage(m, OverlayTasks)
    \/ \E id \in overlayArmed : OverlayExpires(id)
    \/ (\A t \in TaskIds : Settled(t)) /\ PostSessionReset
    \/ Tick(OverlayTicks)
    \/ \E t \in TaskIds : StartTask(t)
    \/ \E t \in TaskIds, n \in 0..1 : ModelReturns(t, n, OverlayChain)
    \/ \E t \in TaskIds, x \in OverlayTexts, p \in OverlayPriorities, ttl \in OverlayTtls :
          SetOverlay(t, x, p, ttl)
    \/ \E t \in TaskIds : ClearOverlay(t)

SpecOverlay == InitDefault /\ [][NextOverlay]_vars

\* the speech of the page: speech events arrive while others are played;
\* playing an audio succeeds or fails
PlayerEvents == 5

NextPlayer ==
    \/ SpeechArrives(PlayerEvents)
    \/ \E ok \in BOOLEAN : PlayReturns(ok)
    \/ \E ok \in BOOLEAN : AudioEnds(ok)

SpecPlayer == InitDefault /\ [][NextPlayer]_vars

\* the same with the browser settling every audio.play() and ending every
\* audio, one way or the other; speech events arrive or do not
SpecPlayerFair ==
    /\ SpecPlayer
    /\ WF_vars(\E ok \in BOOLEAN : PlayReturns(ok))
    /\ WF_vars(\E ok \in BOOLEAN : AudioEnds(ok))

(***************************************************************************)
(* Properties.                                                             *)
(***************************************************************************)
reasonOf(result) == IF "reason" \in DOMAIN result THEN result.reason ELSE ""

\* the last set_panel call met a locked step with frameAllowsStepAdvance false
\* and asked for a step that is not the locked one
gatedDifferentStep ==
    /\ lastGate.called
    /\ lastGate.step # NULL
    /\ ~lastGate.allowed
    /\ sanitizedOf[lastGate.requested] # ""
    /\ ~sameStepOf[lastGate.step, sanitizedOf[lastGate.requested]]

gateRejected ==
    /\ reasonOf(lastGate.result) = "current_step_not_visually_complete"
    /\ ~lastGate.result.ok
    /\ lastGate.after = lastGate.step

\* C1, as amended: while a step is locked and frameAllowsStepAdvance is false,
\* a set_panel call whose sanitized text is non-empty, passes the broadness
\* check and is a different step from the locked one returns the rejection
\* current_step_not_visually_complete and leaves the locked step unchanged.
C1_DifferentSingleActionRejected ==
    (gatedDifferentStep /\ ~tooBroadOf[sanitizedOf[lastGate.requested]]) => gateRejected

\* C1, a case of it: the gate rejected a different single-action step
C1_RejectionSeen ==
    /\ gatedDifferentStep
    /\ ~tooBroadOf[sanitizedOf[lastGate.requested]]
    /\ gateRejected
    /\ pendingNextStep = sanitizedOf[lastGate.requested]

\* C1, as stated: while a step is locked and frameAllowsStepAdvance is false,
\* every set_panel call whose sanitized text is a different step returns
\* current_step_not_visually_complete and leaves the locked step unchanged.
C1_EveryDifferentStepRejected == gatedDifferentStep => gateRejected

\* the latest ingested assessment judged step as complete
judgedComplete(assessment, step) ==
    /\ assessment # << >>
    /\ assessment[1].stepStatus = "complete"
    /\ assessment[1].seenStep # NULL
    /\ sameStepOf[assessment[1].seenStep, step]

\* C2, as stated: in every reachable state, if frameAllowsStepAdvance is true
\* then no step is locked or the latest ingested frame assessment judged the
\* locked step as complete.
C2_FlagMeansNoStepOrComplete ==
    frameAllowsStepAdvance =>
        (currentStep = NULL \/ judgedComplete(latestFrameAssessment, currentStep))

\* C3, as stated: set_panel replaces the locked step by a different one
\* (advanced = true) only if the latest ingested frame assessment judged the
\* outgoing step complete and no advance was made on that frame already; so
\* never two advances on one frame and none before any frame.
C3_AdvanceNeedsFreshCompleteFrame ==
    (lastGate.called /\ wasAdvanced(lastGate.result)) =>
        /\ judgedComplete(lastGate.assessment, lastGate.step)
        /\ ~lastGate.again

\* C4, as stated: at most one queued task has begun and not settled.
C4_AtMostOneTaskRunning ==
    Cardinality({ t \in TaskIds : Running(t) }) <= 1

\* C5, as stated: while a task is suspended in the voice synthesis, between
\* the evaluation of the speech gate and its mutation, no step of anything
\* else changes the step-lock state, the speech-gate state or the vision
\* history.
C5_NoWriteWhileTaskSuspended ==
    [][(\E t \in TaskIds : tasks[t].pc = "tts" /\ tasks'[t] = tasks[t]) =>
           UNCHANGED <<currentStep, pendingNextStep, frameAllowsStepAdvance,
                       completedStepKeys, speechVars, visionHistory>>]_vars

\* C6, as stated: a speak request whose text matches the urgency keyword set
\* is never suppressed: it reaches the voice synthesis.
C6_UrgentReachesSynthesis ==
    (lastSpeak.text # NULL /\ urgentOf[lastSpeak.text]) => lastSpeak.outcome = "synthesis"

\* C7, as stated: every function call of a model turn yields exactly one
\* output carrying its call id, and no call ends the task with an exception:
\* whenever a task is not executing calls, every call of its turn was answered.
C7_EveryCallAnswered ==
    \A t \in TaskIds :
        /\ \A i \in 1..Len(tasks[t].toolResults) : tasks[t].toolResults[i].call_id = i
        /\ tasks[t].pc \in {"exec", "tts"} => Len(tasks[t].toolResults) = tasks[t].idx
        /\ tasks[t].pc \in {"model", "done", "failed"} => tasks[t].idx = tasks[t].nCalls

\* C8, as stated: the tool loop of an event runs at most MAX_TOOL_ROUNDS rounds
\* and ends either by returning at a model turn without function calls or by
\* failing the event with the loop-exceeded error (an external call that
\* itself fails aside), whatever the model returns.
C8_LoopEndsDoneOrExceeded ==
    \A t \in TaskIds :
        /\ tasks[t].step <= MAX_TOOL_ROUNDS
        /\ tasks[t].pc = "failed" =>
              \/ /\ tasks[t].error = "Tool-call loop exceeded safety depth."
                 /\ tasks[t].step = MAX_TOOL_ROUNDS
              \/ tasks[t].error \in {"model call failed", "Voice output failed"}

started(t) == \E i \in 1..Len(startOrder) : startOrder[i] = t

\* the place of a started task in the order of starts
startIndex(t) == CHOOSE i \in 1..Len(startOrder) : startOrder[i] = t

C10_StartsInEnqueueOrder ==
    /\ \A i, j \in 1..Len(startOrder) : i < j => startOrder[i] < startOrder[j]
    /\ \A t \in TaskIds : started(t) => \A u \in 1..t : started(u)

\* the step is the return of a set_panel call of task t: the output pushed is
\* the gate result recorded in lastGate'
panelCallBy(t) ==
    /\ tasks[t].pc = "exec"
    /\ Len(tasks'[t].toolResults) = Len(tasks[t].toolResults) + 1
    /\ lastGate'.called
    /\ tasks'[t].toolResults[Len(tasks'[t].toolResults)].output = lastGate'.result
    /\ DOMAIN lastGate'.result # {"ok"}

\* the call of this step asked for a step text that is not the locked step
asksDifferentStep ==
    /\ currentStep # NULL
    /\ sanitizedOf[lastGate'.requested] # ""
    /\ ~sameStepOf[currentStep, sanitizedOf[lastGate'.requested]]

\* the call of this step asked for a text that passes the single-action check
asksSingleAction ==
    /\ sanitizedOf[lastGate'.requested] # ""
    /\ ~tooBroadOf[sanitizedOf[lastGate'.requested]]

lockedBy(result) ==
    /\ result.ok
    /\ "advanced" \in DOMAIN result
    /\ ~result.advanced
    /\ "step_locked" \in DOMAIN result

\* the call of this step locked the requested text as the first step
firstStepLocked ==
    /\ lockedBy(lastGate'.result)
    /\ currentStep' = sanitizedOf[lastGate'.requested]
    /\ pendingNextStep' = NULL
    /\ UNCHANGED <<completedStepKeys, completedSteps>>

\* the call of this step advanced to the requested text
advancedToRequested ==
    /\ lastGate'.result.ok
    /\ wasAdvanced(lastGate'.result)
    /\ currentStep' = sanitizedOf[lastGate'.requested]
    /\ pendingNextStep' = NULL

\* C11, as amended: from no locked step, a proposal that sanitizes to a
\* non-empty single action locks it with advanced = false; with a step locked
\* whose latest frame assessment is complete, a proposal that sanitizes to a
\* non-empty single action different from the locked step succeeds with
\* advanced = true, becomes the locked step, pending is null, and the outgoing
\* step is recorded once: unless its key is empty or already recorded, the
\* key joins completedStepKeys and the text is appended to the completed steps.
C11_LockThenAdvanceOnComplete ==
    [][\A t \in TaskIds :
          (panelCallBy(t) /\ asksSingleAction) =>
              /\ currentStep = NULL => firstStepLocked
              /\ (asksDifferentStep /\ judgedComplete(latestFrameAssessment, currentStep)) =>
                    /\ advancedToRequested
                    /\ IF stepKeyOf[currentStep] = ""
                          \/ stepKeyOf[currentStep] \in completedStepKeys
                       THEN UNCHANGED <<completedStepKeys, completedSteps>>
                       ELSE /\ completedStepKeys' =
                                  completedStepKeys \cup {stepKeyOf[currentStep]}
                            /\ completedSteps' = Append(completedSteps, currentStep)]_vars

\* C11, a case of it: a step was advanced on a complete frame for it and the
\* outgoing step is the last of the completed steps
C11_AdvancedAndRecorded ==
    /\ lastGate.called
    /\ wasAdvanced(lastGate.result)
    /\ judgedComplete(lastGate.assessment, lastGate.step)
    /\ currentStep = lastGate.after
    /\ pendingNextStep = NULL
    /\ stepKeyOf[lastGate.step] \in completedStepKeys
    /\ completedSteps # << >>
    /\ completedSteps[Len(completedSteps)] = lastGate.step

\* C11, as stated: a first proposal locks the step with advanced = false; with
\* a complete frame assessment for the locked step, every proposal of a
\* different step succeeds with advanced = true, becomes the locked step,
\* pending is null, the outgoing key is in completedStepKeys and the outgoing
\* text is appended to the completed steps.
C11_EveryDifferentStepAdvances ==
    [][\A t \in TaskIds :
          (panelCallBy(t) /\ sanitizedOf[lastGate'.requested] # "") =>
              /\ currentStep = NULL => firstStepLocked
              /\ (asksDifferentStep /\ judgedComplete(latestFrameAssessment, currentStep)) =>
                    /\ advancedToRequested
                    /\ stepKeyOf[currentStep] \in completedStepKeys'
                    /\ completedSteps' = Append(completedSteps, currentStep)]_vars

\* C12, as stated, for its first case: while a step is locked, a proposal
\* whose sanitized text is identical to the locked step is an edit in place,
\* whatever frameAllowsStepAdvance is: it returns advanced = false, clears the
\* pending step and adds nothing to completedStepKeys or the completed steps.
C12_IdenticalTextIsEdit ==
    [][\A t \in TaskIds :
          (/\ panelCallBy(t)
           /\ currentStep # NULL
           /\ sanitizedOf[lastGate'.requested] = currentStep) =>
              /\ lockedBy(lastGate'.result)
              /\ currentStep' = currentStep
              /\ pendingNextStep' = NULL
              /\ UNCHANGED <<completedStepKeys, completedSteps>>]_vars

\* C13, as stated: the completed-steps list never holds two entries with the
\* same normalized step key.
C13_NoStepCompletedTwice ==
    \A i, j \in 1..Len(completedSteps) :
        i # j => stepKeyOf[completedSteps[i]] # stepKeyOf[completedSteps[j]]

\* the task t writes the recipe file in this step
catalogWrittenBy(t) == tasks[t].pc = "writeFile" /\ tasks'[t].pc # "writeFile"

\* the dish key of the session the assistant is in
sessionDishKey == IF currentDish = "" THEN "" ELSE dishKeyOf[currentDish]

\* C14, as stated: a recipe is written to the catalog only if a user message
\* that confirms completion was received in the current session before, the
\* dish key of the recipe is the dish key of the session, and nothing was
\* saved in this session yet; so a session writes the catalog at most once
C14_SavedOnceWhenConfirmed ==
    [][\A t \in TaskIds :
          catalogWrittenBy(t) =>
              /\ sessionConfirmed
              /\ tasks[t].saving[1].saved.dishKey = sessionDishKey
              /\ sessionSaves = 0]_vars

\* the task t gets the answer of complete_recipe in this step without a save
refusedBy(t) ==
    /\ tasks[t].pc = "exec"
    /\ Len(tasks'[t].toolResults) = Len(tasks[t].toolResults) + 1
    /\ "saved" \in DOMAIN tasks'[t].toolResults[Len(tasks'[t].toolResults)].output

\* the task t is let through to the save in this step
admittedBy(t) == tasks[t].pc = "exec" /\ tasks'[t].pc = "readFile"

\* the preconditions of a save of `dish`
savePreconditions(dish) ==
    /\ activeDishKey # ""
    /\ dishKeyOf[dish] = activeDishKey
    /\ ~recipeStoredForSession
    /\ completionConfirmedForSession

\* C15, as stated: a complete_recipe call is let through to the save only when
\* every precondition holds, and every call that is not let through is
\* answered with ok=false, saved=false and an error, the catalog and the
\* flags recipeStored and completionConfirmed being left as they were
C15_RefusalIsAnError ==
    [][\A t \in TaskIds :
          /\ admittedBy(t) => savePreconditions(tasks'[t].saving[1].dish)
          /\ refusedBy(t) =>
                /\ ~tasks'[t].toolResults[Len(tasks'[t].toolResults)].output.ok
                /\ ~tasks'[t].toolResults[Len(tasks'[t].toolResults)].output.saved
                /\ "error" \in DOMAIN tasks'[t].toolResults[Len(tasks'[t].toolResults)].output
                /\ UNCHANGED <<catalog, recipeStoredForSession,
                               completionConfirmedForSession>>]_vars

\* with REQUIRE_VOICE set, the synthesis the task t awaited returns in this
\* step and its utterance is voiced (a failed synthesis fails the task)
voicedBy(t) == requireVoice /\ tasks[t].pc = "tts" /\ tasks'[t].pc \notin {"tts", "failed"}

\* C16, as stated: while the session waits for the answer to a voiced
\* question, no utterance is voiced that does not match an urgency keyword
C16_NothingRoutineWhileWaiting ==
    [][\A t \in TaskIds :
          (voicedBy(t) /\ waitingForUserAnswer) => urgentOf[tasks[t].speech[1].text]]_vars

\* C17: the synthesis is never invoked for a routine preference question,
\* whatever the state of the speech gate and whether or not the question
\* matches an urgency keyword; so no such question is ever voiced
C17_NoPreferenceQuestionSynthesized ==
    \A t \in TaskIds :
        tasks[t].pc = "tts" => ~preferenceQuestionOf[tasks[t].speech[1].text]

\* a speak call asked for a routine preference question that matches an
\* urgency keyword, and the speech gate dropped it as such
C17_UrgentPreferenceQuestionDropped ==
    /\ lastSpeak.text # NULL
    /\ preferenceQuestionOf[lastSpeak.text]
    /\ urgentOf[lastSpeak.text]
    /\ lastSpeak.outcome = "routine_preference_question"

\* C18, as stated: an utterance whose text key is the key of the utterance
\* voiced last (no other text and no reset since) is voiced only when the
\* speech-repeat cooldown has elapsed between the two speak calls
C18_NoRepeatWithinCooldown ==
    [][\A t \in TaskIds :
          (voicedBy(t) /\ tasks[t].speech[1].textKey = lastSpokenTextKey) =>
              tasks[t].speech[1].now - lastSpokenAtMs >= speechRepeatCooldownMs]_vars

\* C19, as stated: a question that matches no urgency keyword is voiced only
\* when the minimum gap has elapsed since the speak call of the question voiced
\* last (no reset since), answered or not
C19_QuestionsKeepTheirGap ==
    [][\A t \in TaskIds :
          (/\ voicedBy(t)
           /\ tasks[t].speech[1].isQuestion
           /\ ~urgentOf[tasks[t].speech[1].text]
           /\ lastQuestionAtMs # 0) =>
              tasks[t].speech[1].now - lastQuestionAtMs >= minQuestionGapMs]_vars

\* the step-scoped gate lets `message` through
stepGatePassed(message) ==
    \/ currentStep = NULL
    \/ frameAllowsStepAdvance
    \/ urgentOf[message]
    \/ questionOf[message]
    \/ /\ matchesStepOf[currentStep, message]
       /\ now - lastRoutineSpeakAtMs >= ROUTINE_SPEAK_MIN_GAP_MS

\* the general speech gate lets `message` through
speechGatePassed(message) ==
    /\ ~(textKeyOf[message] = lastSpokenTextKey
         /\ now - lastSpokenAtMs < speechRepeatCooldownMs)
    /\ waitingForUserAnswer => urgentOf[message]
    /\ ~(questionOf[message] /\ waitingForUserAnswer
         /\ now - lastQuestionAtMs < questionRepeatCooldownMs)
    /\ ~preferenceQuestionOf[message]
    /\ ~(questionOf[message] /\ ~urgentOf[message]
         /\ now - lastQuestionAtMs < minQuestionGapMs)

ingestedBy(t) == tasks[t].pc = "vision" /\ tasks'[t].pc = "model"

\* C21: the vision history never holds more than 10 entries; a frame that is
\* ingested puts its entry last and keeps the entries before it in their
\* order, all of them when fewer than 10 were present and all but the oldest
\* when 10 were
C21_HistoryKeepsLatestTen ==
    [][/\ Len(visionHistory') <= MAX_VISION_HISTORY
       /\ \A t \in TaskIds :
             ingestedBy(t) =>
                 /\ visionHistory'[Len(visionHistory')] =
                        [takenAtMs |-> timestampOf[tasks[t].text],
                         stepStatus |-> latestFrameAssessment'[1].stepStatus]
                 /\ IF Len(visionHistory) = MAX_VISION_HISTORY
                    THEN /\ Len(visionHistory') = MAX_VISION_HISTORY
                         /\ SubSeq(visionHistory', 1, MAX_VISION_HISTORY - 1) =
                                SubSeq(visionHistory, 2, MAX_VISION_HISTORY)
                    ELSE /\ Len(visionHistory') = Len(visionHistory) + 1
                         /\ SubSeq(visionHistory', 1, Len(visionHistory)) = visionHistory]_vars

\* more than 10 frames were ingested, the history is full, and its oldest
\* entry differs from the one after it
C21_EleventhFrameIngested ==
    /\ Cardinality({t \in TaskIds : tasks[t].kind = "frame"
                                    /\ tasks[t].pc \in {"model", "done"}})
           > MAX_VISION_HISTORY
    /\ Len(visionHistory) = MAX_VISION_HISTORY
    /\ visionHistory[1] # visionHistory[2]

\* no two entries of `recipes` have the same dish key
uniqueKeys(recipes) ==
    \A i, j \in 1..Len(recipes) : recipes[i].dishKey = recipes[j].dishKey => i = j

\* the entries of `recipes` other than the one of dishKey
othersOf(recipes, dishKey) ==
    { recipes[i] : i \in { j \in 1..Len(recipes) : recipes[j].dishKey # dishKey } }

\* C23, as stated: no two catalog entries share a dish key and the key of
\* every entry is the normalized dish; a save of a dish whose key is in the
\* catalog replaces the text and completedAt of that entry and adds exactly 1
\* to its timesCooked while the number of entries stays, and a save of a new
\* key adds one entry with timesCooked = 1; the other entries are kept
C23_SaveReplacesOrAppends ==
    [][/\ uniqueKeys(catalog')
       /\ \A i \in 1..Len(catalog') :
             catalog'[i].dishKey = normalizeDishKey(catalog'[i].dish)
       /\ \A t \in TaskIds :
             catalogWrittenBy(t) =>
                 /\ findIndexOfKey(catalog', tasks[t].saving[1].saved.dishKey) > 0
                 /\ othersOf(catalog', tasks[t].saving[1].saved.dishKey) =
                        othersOf(catalog, tasks[t].saving[1].saved.dishKey)
                 /\ catalog'[findIndexOfKey(catalog', tasks[t].saving[1].saved.dishKey)].recipe
                        = tasks[t].saving[1].saved.recipe
                 /\ catalog'[findIndexOfKey(catalog', tasks[t].saving[1].saved.dishKey)].completedAt
                        = tasks[t].saving[1].saved.completedAt
                 /\ IF findIndexOfKey(catalog, tasks[t].saving[1].saved.dishKey) > 0
                    THEN /\ Len(catalog') = Len(catalog)
                         /\ catalog'[findIndexOfKey(catalog',
                                                    tasks[t].saving[1].saved.dishKey)].timesCooked
                              = catalog[findIndexOfKey(catalog,
                                                       tasks[t].saving[1].saved.dishKey)].timesCooked
                                + 1
                    ELSE /\ Len(catalog') = Len(catalog) + 1
                         /\ catalog'[findIndexOfKey(catalog',
                                                    tasks[t].saving[1].saved.dishKey)].timesCooked
                              = 1]_vars

\* the task t gets the answer of a lookup_recipe call that read the recipe file
lookedUpBy(t) == tasks[t].pc = "lookupFile" /\ tasks'[t].pc # "lookupFile"

\* the result of the last call of the task t, after the step
lookupOutput(t) == tasks'[t].toolResults[Len(tasks'[t].toolResults)].output

\* the score of the entry i of the catalog for the query of the task t
lookupScore(t, i) ==
    scoreDishMatch(normalizeDishKey(tasks[t].saving[1].dish), catalog[i].dishKey)

\* C22: a lookup whose normalized query is the dish key of an entry returns
\* that entry as an exact match; otherwise, when some entry scores at least
\* 0.62, it returns as a fuzzy match an entry whose score no other entry
\* exceeds; otherwise it returns no match
C22_LookupIsExactThenBestFuzzy ==
    [][\A t \in TaskIds :
          lookedUpBy(t) =>
              IF \E i \in 1..Len(catalog) :
                     catalog[i].dishKey = normalizeDishKey(tasks[t].saving[1].dish)
              THEN /\ lookupOutput(t).found
                   /\ lookupOutput(t).matchType = "exact"
                   /\ lookupOutput(t).dishKey = normalizeDishKey(tasks[t].saving[1].dish)
                   /\ \E i \in 1..Len(catalog) :
                          /\ catalog[i].dishKey = lookupOutput(t).dishKey
                          /\ catalog[i].dish = lookupOutput(t).dish
                          /\ catalog[i].recipe = lookupOutput(t).recipe
                          /\ catalog[i].timesCooked = lookupOutput(t).timesCooked
              ELSE IF \E i \in 1..Len(catalog) : ~fracLess(lookupScore(t, i), <<62, 100>>)
              THEN /\ lookupOutput(t).found
                   /\ lookupOutput(t).matchType = "fuzzy"
                   /\ \E i \in 1..Len(catalog) :
                          /\ catalog[i].dishKey = lookupOutput(t).dishKey
                          /\ catalog[i].dish = lookupOutput(t).dish
                          /\ catalog[i].recipe = lookupOutput(t).recipe
                          /\ catalog[i].timesCooked = lookupOutput(t).timesCooked
                          /\ \A j \in 1..Len(catalog) :
                                 ~fracLess(lookupScore(t, i), lookupScore(t, j))
              ELSE /\ ~lookupOutput(t).found
                   /\ lookupOutput(t).matchType = "none"]_vars

\* C22, witness: with four recipes stored, a lookup of "Thai red curry" has
\* returned "Thai Green Curry", the last entry, as a fuzzy match
C22_FuzzyMatchReturned ==
    /\ Len(catalog) = 4
    /\ \E t \in TaskIds :
          /\ tasks[t].toolResults # << >>
          /\ tasks[t].toolResults[1].output.matchType = "fuzzy"
          /\ tasks[t].toolResults[1].output.query = "Thai red curry"
          /\ tasks[t].toolResults[1].output.dish = "Thai Green Curry"

\* C24, as stated: at most one frame request is in flight; a countdown to the
\* next capture is started only when no frame request is in flight; and a
\* frame is sent only by a tick of the current loop token of a started session
C24_OneFrameThenCountdown ==
    [][/\ Len(frameRequests') <= 1
       /\ Len(timeouts') > Len(timeouts) => frameRequests' = << >>
       /\ Len(frameRequests') > Len(frameRequests) =>
              /\ sessionStarted'
              /\ frameRequests'[Len(frameRequests')] = captureLoopToken']_vars

\* the step text ends with ".", "!" or "?"
closedStep(step) == step # "" /\ Ch(step, Len(step)) \in {".", "!", "?"}

\* C25, as stated: the sanitized text of every set_panel call is empty, and
\* the call is rejected, or it ends with ".", "!" or "?" and has at most 12
\* words separated by white space
C25_StepClosedWithinTwelveWords ==
    [][\A t \in TaskIds :
          panelCallBy(t) =>
              IF sanitizedOf[lastGate'.requested] = ""
              THEN lastGate'.result = [ok |-> FALSE, error |-> "next_step is empty"]
              ELSE /\ closedStep(sanitizedOf[lastGate'.requested])
                   /\ Len(splitWords(sanitizedOf[lastGate'.requested])) <= 12]_vars

\* C25, amended: the sanitized text of every set_panel call is empty, and the
\* call is rejected, or it ends with ".", "!" or "?" and has at most 12 words
\* once the closing marks at its end are taken off
C25_StepClosedWithinTwelveWordsBeforeMarks ==
    [][\A t \in TaskIds :
          panelCallBy(t) =>
              IF sanitizedOf[lastGate'.requested] = ""
              THEN lastGate'.result = [ok |-> FALSE, error |-> "next_step is empty"]
              ELSE /\ closedStep(sanitizedOf[lastGate'.requested])
                   /\ Len(splitWords(stripSentenceEnd(sanitizedOf[lastGate'.requested])))
                          <= 12]_vars

\* C25, witness: a text of fifteen words was proposed and its first twelve
\* words, closed with ".", are the locked step
C25_LongStepCut ==
    /\ lastGate.called
    /\ Len(splitWords(lastGate.requested)) = 15
    /\ currentStep # NULL
    /\ currentStep = sanitizedOf[lastGate.requested]
    /\ Len(splitWords(currentStep)) = 12

\* the speak call of the task t is answered in this step without a synthesis:
\* a gate suppressed it
speakSuppressedBy(t) ==
    /\ tasks[t].pc = "exec"
    /\ Len(tasks'[t].toolResults) = Len(tasks[t].toolResults) + 1
    /\ lastSpeak'.text # NULL
    /\ lastSpeak'.outcome # "synthesis"
    /\ \/ DOMAIN tasks'[t].toolResults[Len(tasks'[t].toolResults)].output = {"ok"}
       \/ "suppressed" \in DOMAIN tasks'[t].toolResults[Len(tasks'[t].toolResults)].output

\* C26, as stated: the result of a speak call that a gate suppressed, the
\* step-scoped gate or a rule of the speech gate, says that it was suppressed
\* and gives a reason; the plain result ok = true is given only after the
\* utterance was handed to the synthesis
C26_SuppressionIsReported ==
    [][\A t \in TaskIds :
          speakSuppressedBy(t) =>
              /\ "suppressed" \in DOMAIN tasks'[t].toolResults[Len(tasks'[t].toolResults)].output
              /\ tasks'[t].toolResults[Len(tasks'[t].toolResults)].output.suppressed
              /\ tasks'[t].toolResults[Len(tasks'[t].toolResults)].output.reason # ""]_vars

\* the synthesis the task t awaited returns in this step with the audio: the
\* utterance is broadcast and recorded as the one spoken last
synthesizedBy(t) ==
    /\ tasks[t].pc = "tts"
    /\ tasks'[t].pc \notin {"tts", "failed"}
    /\ lastSpokenTextKey' = tasks[t].speech[1].textKey
    /\ lastSpokenAtMs' = tasks[t].speech[1].now

\* C27, as stated: a step of a speak call changes lastRoutineSpeakAtMs only
\* when it voices an utterance that is neither a question nor urgent; a call
\* that a gate suppresses or whose synthesis fails leaves it as it is
C27_RoutineTimeOnlyWhenVoiced ==
    [][\A t \in TaskIds :
          (/\ tasks[t].pc \in {"exec", "tts"}
           /\ tasks'[t] # tasks[t]
           /\ lastRoutineSpeakAtMs' # lastRoutineSpeakAtMs) =>
              /\ synthesizedBy(t)
              /\ isRoutine(tasks[t].speech[1].text)]_vars

\* C28, as stated: when the model turn that follows the 8th round of tool
\* results arrives, the event completes normally if the turn has no function
\* calls, and fails as exceeding the loop only if it has some
C28_PlainTurnAfterEightRoundsCompletes ==
    [][\A t \in TaskIds :
          (/\ tasks[t].pc = "model"
           /\ tasks[t].step = 8
           /\ tasks'[t].pc # "model"
           /\ tasks'[t].error # "model call failed") =>
              IF tasks'[t].nCalls = 0
              THEN tasks'[t].pc = "done"
              ELSE /\ tasks'[t].pc = "failed"
                   /\ tasks'[t].error = "Tool-call loop exceeded safety depth."]_vars

\* the task t executes a speak call in this step: it begins a synthesis or
\* gets the result of the call
speakCallBy(t) ==
    /\ tasks[t].pc = "exec"
    /\ lastSpeak'.text # NULL
    /\ \/ tasks'[t].pc = "tts"
       \/ /\ Len(tasks'[t].toolResults) = Len(tasks[t].toolResults) + 1
          /\ \/ DOMAIN tasks'[t].toolResults[Len(tasks'[t].toolResults)].output = {"ok"}
             \/ "suppressed" \in DOMAIN tasks'[t].toolResults[Len(tasks'[t].toolResults)].output

\* the step-scoped check blocks the speak call of this step
stepBlocked ==
    lastSpeak'.outcome \in {"blocked_next_step_until_visual_completion",
                            "step_waiting_repeat_suppressed"}

\* the message relates to the step: their tokens overlap by a quarter at
\* least, or one normalized text contains the other
relatesTo(step, message) ==
    \/ atLeastPct(tokenOverlap(step, message), 25)
    \/ includes(normalizeStepKey(message), normalizeStepKey(step))
    \/ includes(normalizeStepKey(step), normalizeStepKey(message))

relatesOf == [s \in StepTexts, m \in Messages |-> relatesTo(s, m)]

\* C29: with a step locked and frameAllowsStepAdvance false, a speak call for
\* a message that is neither urgent nor a question goes on to the speech gate
\* only if the message relates to the locked step and 45 s have passed since
\* the last routine utterance; with no step locked, or the flag true, or an
\* urgent message or a question, the step-scoped check does not block
C29_StepScopedCheck ==
    [][\A t \in TaskIds :
          speakCallBy(t) =>
              IF /\ currentStep # NULL
                 /\ ~frameAllowsStepAdvance
                 /\ ~urgentOf[lastSpeak'.text]
                 /\ ~questionOf[lastSpeak'.text]
              THEN ~stepBlocked =>
                       /\ relatesOf[currentStep, lastSpeak'.text]
                       /\ now - lastRoutineSpeakAtMs >= 45000
              ELSE ~stepBlocked]_vars

\* C29, witness: with the step locked and not visually complete, a reminder
\* of that step was held back because the last routine utterance was less
\* than 45 s ago
C29_ReminderHeldBack ==
    /\ currentStep # NULL
    /\ ~frameAllowsStepAdvance
    /\ lastSpeak.outcome = "step_waiting_repeat_suppressed"
    /\ now - lastRoutineSpeakAtMs < 45000

\* the five variables of the speech gate after the utterance of the
\* synthesis that the task t awaits was voiced
spokenRecorded(t) ==
    /\ lastSpokenTextKey' = textKeyOf[tasks[t].speech[1].text]
    /\ lastSpokenAtMs' = tasks[t].speech[1].now
    /\ IF questionOf[tasks[t].speech[1].text]
       THEN /\ waitingForUserAnswer'
            /\ lastQuestionAtMs' = tasks[t].speech[1].now
            /\ lastQuestionText' = tasks[t].speech[1].text
       ELSE UNCHANGED <<waitingForUserAnswer, lastQuestionAtMs, lastQuestionText>>

\* C30: a step of a speak call changes the five variables of the speech gate
\* only when its synthesis succeeded: the call itself, suppressed or handed to
\* the synthesis, and a synthesis that fails leave all five as they are; a
\* synthesis that succeeds records the utterance as spoken last and, if and
\* only if it is a question, sets waitingForUserAnswer and records it as the
\* question asked last
C30_SpeechStateOnlyAfterSynthesis ==
    [][\A t \in TaskIds :
          /\ speakCallBy(t) => UNCHANGED speechVars
          /\ (tasks[t].pc = "tts" /\ tasks'[t].pc # "tts") =>
                IF tasks'[t].pc = "failed"
                THEN UNCHANGED speechVars
                ELSE \/ spokenRecorded(t)
                     \/ ~requireVoice /\ UNCHANGED speechVars]_vars

\* C30, witness: a question was voiced and a later speak call was suppressed:
\* the question is the utterance spoken last and the question asked last, and
\* the session waits for its answer
C30_QuestionVoicedThenSuppression ==
    /\ waitingForUserAnswer
    /\ lastQuestionText = "Is the butter melted?"
    /\ lastSpokenTextKey = textKeyOf[lastQuestionText]
    /\ lastQuestionAtMs = lastSpokenAtMs
    /\ lastSpeak.text = "Grab the eggs."
    /\ lastSpeak.outcome = "awaiting_answer"

\* C31: every frame that is ingested sets frameAllowsStepAdvance to (no step
\* is locked, or the status of that frame is complete), whatever the flag was
\* before, and puts the entry of that frame last in the vision history in the
\* same step
C31_FlagRecomputedFromEachFrame ==
    [][\A t \in TaskIds :
          ingestedBy(t) =>
              /\ latestFrameAssessment' # << >>
              /\ frameAllowsStepAdvance' =
                     (currentStep' = NULL
                          \/ latestFrameAssessment'[1].stepStatus = "complete")
              /\ currentStep' = currentStep
              /\ visionHistory' # << >>
              /\ visionHistory'[Len(visionHistory')].stepStatus =
                     latestFrameAssessment'[1].stepStatus
              /\ visionHistory'[Len(visionHistory')].takenAtMs =
                     timestampOf[tasks[t].text]]_vars

\* a step is locked, the frame before the last was judged complete and the
\* last, asked about the locked step, in progress: the flag is false again
C31_LeaveWithdrawn ==
    /\ currentStep # NULL
    /\ completedSteps = << >>
    /\ Len(visionHistory) >= 3
    /\ visionHistory[Len(visionHistory) - 1].stepStatus = "complete"
    /\ visionHistory[Len(visionHistory)].stepStatus = "in_progress"
    /\ latestFrameAssessment # << >>
    /\ latestFrameAssessment[1].seenStep = currentStep
    /\ ~frameAllowsStepAdvance

\* C32: a vision call that throws, or that answers without a JSON object or
\* without a valid step_status in it, never fails the task of the frame: the
\* frame is ingested with the status unclear when a step is locked and
\* not_started when none is, and leaves the flag false while a step is locked
C32_MalformedVisionFallsBack ==
    [][\A t \in TaskIds, out \in MalformedOutputs :
          VisionReturns(t, out) =>
              /\ tasks'[t].pc = "model"
              /\ latestFrameAssessment'[1].stepStatus =
                     (IF currentStep # NULL THEN "unclear" ELSE "not_started")
              /\ visionHistory'[Len(visionHistory')].stepStatus =
                     latestFrameAssessment'[1].stepStatus
              /\ currentStep # NULL => ~frameAllowsStepAdvance']_vars

\* a step is locked, it was judged complete by the frame before the last, and
\* the last frame has the status unclear, which in SpecIngest no answer states:
\* the task of that frame goes on and the flag is false
C32_FallbackWhileLocked ==
    /\ currentStep # NULL
    /\ Len(visionHistory) >= 2
    /\ visionHistory[Len(visionHistory) - 1].stepStatus = "complete"
    /\ latestFrameAssessment # << >>
    /\ latestFrameAssessment[1].stepStatus = "unclear"
    /\ latestFrameAssessment[1].seenStep = currentStep
    /\ ~frameAllowsStepAdvance
    /\ \E t \in TaskIds : tasks[t].kind = "frame" /\ tasks[t].pc \in {"model", "exec", "done"}
    /\ \A t \in TaskIds : tasks[t].pc # "failed"

\* C33: a set_panel call that finds no step locked and asks for a text that
\* sanitizes to a non-empty single action locks that text, whether
\* frameAllowsStepAdvance is true or false: the result is ok with advanced =
\* false and step_locked the sanitized text, the panel shows it, the pending
\* step is null and nothing joins the completed steps or their keys
C33_FirstLockIgnoresFlag ==
    [][\A t \in TaskIds :
          (panelCallBy(t) /\ asksSingleAction /\ currentStep = NULL) =>
              /\ firstStepLocked
              /\ lastGate'.result.step_locked = sanitizedOf[lastGate'.requested]
              /\ panel' # << >>
              /\ panel'[1].nextStep = currentStep'
              /\ UNCHANGED frameAllowsStepAdvance]_vars

\* the last set_panel call found no step locked and the flag false, and
\* locked the step it asked for
C33_LockedWithFlagFalse ==
    /\ lastGate.called
    /\ lastGate.step = NULL
    /\ ~lastGate.allowed
    /\ lockedBy(lastGate.result)
    /\ currentStep = lastGate.after
    /\ currentStep = sanitizedOf[lastGate.requested]
    /\ pendingNextStep = NULL
    /\ ~frameAllowsStepAdvance

\* C34: a set_panel call whose text sanitizes to nothing, or to a step that is
\* not a single action, returns a result with ok = false and leaves the locked
\* step, the pending step, the completed steps and their keys, and the panel
\* as they were
C34_RejectedProposalChangesNothing ==
    [][\A t \in TaskIds :
          (panelCallBy(t) /\ ~asksSingleAction) =>
              /\ ~lastGate'.result.ok
              /\ tasks'[t].pc # "failed"
              /\ UNCHANGED <<currentStep, pendingNextStep, completedStepKeys,
                             completedSteps, panel>>]_vars

\* the last set_panel call asked for a step that is too broad while a step
\* was locked and another was pending: both are as they were, the panel
\* shows the locked step
C34_TooBroadWhilePending ==
    /\ lastGate.called
    /\ sanitizedOf[lastGate.requested] # ""
    /\ tooBroadOf[sanitizedOf[lastGate.requested]]
    /\ ~lastGate.result.ok
    /\ lastGate.step # NULL
    /\ currentStep = lastGate.step
    /\ pendingNextStep \notin {NULL, sanitizedOf[lastGate.requested]}
    /\ panel # << >>
    /\ panel[1].nextStep = currentStep

\* C35, as stated: the vision history is ordered by capture time: the
\* timestamp of every entry is at most that of the entry after it, whatever
\* frames are ingested and whatever timestamps they state.
C35_HistoryOrderedByCaptureTime ==
    \A i \in 1..(Len(visionHistory) - 1) :
        visionHistory[i].takenAtMs <= visionHistory[i + 1].takenAtMs

\* the task t issues the first model call of its turn in this step, with
\* previous_response_id the stored previousResponseId
turnIssuedBy(t) ==
    /\ tasks[t].pc \in {"queued", "vision"}
    /\ tasks'[t].pc = "model"

\* the response of that id holds function calls whose outputs were not
\* submitted: the task that received it has not sent the tool results of
\* that round
callsUnanswered(id) ==
    /\ id # << >>
    /\ tasks[id[1]].step = id[2]
    /\ tasks[id[1]].nCalls > 0

\* C36, as stated: whenever a new model turn is issued with the stored
\* previousResponseId, the output of every function call of the response it
\* names was submitted before, also after a task failed with the
\* loop-exceeded error or with an exception of a tool call.
C36_TokenNamesAnsweredResponse ==
    [][\A t \in TaskIds : turnIssuedBy(t) => ~callsUnanswered(previousResponseId)]_vars

\* the task t begins the turn of a session start in this step
sessionStartedBy(t) ==
    /\ tasks[t].kind = "start"
    /\ tasks[t].pc = "queued"
    /\ tasks'[t].pc = "model"

\* C37: a pending step is never there without a locked step, and the pending
\* step is null after every set_panel call that succeeds (a lock, an edit or
\* an advance), after clear_panel, when the turn of a session start begins
\* and after a reset
C37_PendingOnlyWhileLocked ==
    [][/\ pendingNextStep # NULL => currentStep # NULL
       /\ pendingNextStep' # NULL => currentStep' # NULL
       /\ \A t \in TaskIds :
             /\ (panelCallBy(t) /\ lastGate'.result.ok) =>
                    pendingNextStep' = NULL /\ currentStep' # NULL
             /\ ClearPanel(t) => pendingNextStep' = NULL
             /\ sessionStartedBy(t) => pendingNextStep' = NULL
       /\ PostSessionReset => pendingNextStep' = NULL]_vars

\* a set_panel call was blocked, which left its step pending, and a
\* clear_panel call after it unlocked the step: no step is pending
C37_PendingClearedWithStep ==
    /\ lastGate.called
    /\ reasonOf(lastGate.result) = "current_step_not_visually_complete"
    /\ currentStep = NULL
    /\ pendingNextStep = NULL
    /\ panel = << >>
    /\ \E t \in TaskIds :
          /\ tasks[t].toolResults # << >>
          /\ tasks[t].toolResults[Len(tasks[t].toolResults)].output = [ok |-> TRUE]

\* the timeouts of the entries of this.timers
timeoutsOfEntries == {[id |-> timeoutOf[l], label |-> l] : l \in DOMAIN timeoutOf}

\* C38: the only timeouts that can still run are those of the timers of
\* this.timers, one per label, so a timer that was cancelled, replaced or
\* cleared never fires and none fires twice; the callback of a timeout removes its own timer, emits
\* "changed" and then "fired", the timer being gone at both events;
\* cancel_timer answers ok exactly when this.timers held the label
C38_OnlyActiveTimersFire ==
    [][/\ armed = timeoutsOfEntries
       /\ timers = DOMAIN timeoutOf
       /\ \A a \in armed :
             timeoutCallback(timerManager, a).emitted =
                 << [type |-> "changed", active |-> timers \ {a.label}],
                    [type |-> "fired", label |-> a.label, active |-> timers \ {a.label}] >>
       /\ \A l \in TimerArgs :
             TimerFires(trim(l), TimerTasks + 1) =>
                 /\ trim(l) \in timers
                 /\ trim(l) \notin timers'
                 /\ armed' = armed \ {[id |-> timeoutOf[trim(l)], label |-> trim(l)]}
       /\ \A t \in TaskIds, l \in TimerArgs :
             CancelTimer(t, l) =>
                 /\ tasks'[t].toolResults[Len(tasks'[t].toolResults)].output
                        = [ok |-> trim(l) \in timers]
                 /\ trim(l) \notin timers'
                 /\ armed' = {a \in armed : a.label # trim(l)}
       /\ \A t \in TaskIds, l \in TimerArgs :
             SetTimer(t, l) =>
                 /\ timers' = timers \cup {trim(l)}
                 /\ armed' = {a \in armed : a.label # trim(l)}
                                \cup {[id |-> callAt(t), label |-> trim(l)]}
       /\ PostSessionReset => armed' = {} /\ timers' = {}]_vars

\* the timer "eggs" has fired and the task of its event has cancelled the
\* other timer, which cancel_timer answered with ok: no timeout is left
C38_FiredThenCancelledOther ==
    /\ armed = {}
    /\ timers = {}
    /\ \E t \in TaskIds :
          /\ tasks[t].kind = "timer"
          /\ tasks[t].text = "eggs"
          /\ tasks[t].toolResults # << >>
          /\ tasks[t].toolResults[Len(tasks[t].toolResults)].output = [ok |-> TRUE]

\* C39: the only timeout of setOverlay that can still run is the one of the
\* overlay on show, so at most one is pending and none when no overlay with a
\* time to live is shown; an expiry clears the overlay it was set with; and
\* after set_overlay the overlay is the one of the call, with the timeout of
\* that call or none, whatever was pending before
C39_ExpiryClearsOnlyItsOverlay ==
    [][/\ overlayArmed = IF overlayTimeout = << >> THEN {} ELSE {overlayTimeout}
       /\ overlayTimeout # << >> => overlay # << >> /\ overlay[1].expiresAt # NULL
       /\ \A id \in overlayArmed :
             OverlayExpires(id) =>
                 overlay # << >> /\ overlay' = << >> /\ overlayArmed' = {}
       /\ \A t \in TaskIds, x \in OverlayTexts, ttl \in OverlayTtls :
             SetOverlay(t, x, "urgent", ttl) =>
                 /\ overlay' # << >> /\ overlay'[1].text = x
                 /\ overlayArmed' = IF ttl \in {<< >>, <<0>>} THEN {} ELSE {callAt(t)}
                 /\ (overlay'[1].expiresAt # NULL) = (overlayArmed' # {})
       /\ \A t \in TaskIds :
             ClearOverlay(t) => overlay' = << >> /\ overlayArmed' = {}
       /\ PostSessionReset => overlay' = << >> /\ overlayArmed' = {}]_vars

\* after the clock moved on, the second call of a task has set an overlay
\* with a time to live over what its first call left: the one timeout
\* pending is the timeout of that call
C39_LatestOverlayPending ==
    /\ overlay # << >>
    /\ overlay[1].text = "Stir"
    /\ overlay[1].expiresAt = toISOString(StartMs + TickMs + 5000)
    /\ overlayArmed = {<<1, 1, 0>>}

\* the events the page holds: one at the audio at most, the others waiting
eventsWaiting == {speechQueue[i] : i \in 1..Len(speechQueue)}

\* C40: one audio at a time and the events are taken in the order received;
\* every event that waits in the queue is taken from it in the end, whether
\* or not another speech event arrives
C40_EveryEventLeavesTheQueue ==
    /\ [](\A i \in 1..Len(heard) :
             /\ i > 1 => heard[i - 1].event < heard[i].event
             /\ audio # << >> => heard[i].event < audio[1].event)
    /\ [](\A i \in 1..Len(speechQueue) :
             /\ i > 1 => speechQueue[i - 1] < speechQueue[i]
             /\ audio # << >> => audio[1].event < speechQueue[i])
    /\ [](audio # << >> => drainingSpeech)
    /\ \A e \in 1..PlayerEvents : (e \in eventsWaiting) ~> (e \notin eventsWaiting)

====
